---------------------------- MODULE Spec2Model ----------------------------
(***************************************************************************)
(* Discrete-event core of the NIO digital twin (src/simulation/engine.py,  *)
(* src/simulation/models.py).  The engine runs five simpy processes: two   *)
(* production lines, maintenance, supply chain and quality control.  Each  *)
(* action below is one resumption of one generator: everything the         *)
(* generator does from the event that wakes it to its next yield.          *)
(*                                                                         *)
(* simpy keeps the pending events in a heap ordered by (time, priority,    *)
(* insertion id).  env.process schedules the new process's first           *)
(* activation at the current time with priority URGENT; env.timeout and    *)
(* the completion of a process are scheduled with priority NORMAL;         *)
(* env.run(until=t) schedules its stop event at t with priority URGENT.    *)
(* Simulated time is counted in whole time units; a uniform draw is        *)
(* modelled by a draw from the whole numbers of its range.                 *)
(***************************************************************************)
EXTENDS Integers, Sequences, FiniteSets, TLC

VARIABLES
    simulation_duration,  \* SimulationEngine.simulation_duration
    rng,                  \* class of the random stream fixed by random.seed
    phase,                \* position of run_simulation
    error,                \* what the except clause of run_simulation logged
    fault,                \* the errors raised inside generators, in order
    now,                  \* env.now
    queue,                \* simpy's event heap, as a set of events
    eid,                  \* simpy's insertion counter
    processed,            \* events popped by env.step so far, in order
    proc,                 \* position of every generator
    raw_material_stock,   \* SimulationEngine.raw_material_stock
    stock0,               \* the stock the run started with
    vehicle_count,        \* ProductionLine.vehicle_count, per line
    vehicles,             \* ProductionLine.vehicles, per line
    maintenance_log,      \* SimulationEngine.maintenance_log
    log,                  \* what the engine's logger recorded
    draws,                \* the values drawn from the random stream, in order
    tape,                 \* the draws of an earlier run with the same seed
    first,                \* the results of that earlier run
    reads,                \* the views of the core handed to readers, in order
    restart_limit,        \* main: WorkerThread.restart_limit (--restart-limit)
    failing,              \* main: the workers whose target raises every time
    shutdown_flag,        \* main: the global shutdown_flag
    monitor,              \* main: position of main()
    worker,               \* main: every WorkerThread and its thread
    running,              \* DataIngestion.running
    data,                 \* DataIngestion.data, the in-memory buffer
    file,                 \* the records in DataIngestion.output_file
    lock,                 \* the holder of DataIngestion.lock
    thread,               \* DataIngestion: position of every thread
    stop_event,           \* DataIngestion: WorkerThread.stop_event of each
    generation,           \* DataIngestion: the workers start() made last
    serial,               \* DataIngestion: the records ingested so far
    simulation_config,    \* server: the global simulation_config
    responses             \* server: the requests served and their answers

\* The state of main(): its workers and its monitor loop.
supervisor == <<restart_limit, failing, shutdown_flag, monitor, worker>>

\* The state of a DataIngestion instance, its threads and its file.
ingestion == <<running, data, file, lock, thread, stop_event, generation,
               serial>>

\* The state of the web server.
server == <<simulation_config, responses>>

vars == <<simulation_duration, rng, phase, error, fault, now, queue, eid, processed,
          proc, raw_material_stock, stock0, vehicle_count, vehicles,
          maintenance_log, log, draws, tape, first, reads, supervisor,
          ingestion, server>>

\* The state of the engine and of its run.
engine == <<simulation_duration, rng, phase, error, fault, now, queue, eid,
            processed, proc, raw_material_stock, stock0, vehicle_count,
            vehicles, maintenance_log, log, draws, tape, first>>

\* The state outside the engine, which no step of a run touches.
outside == <<reads, supervisor, ingestion, server>>

---------------------------------------------------------------------------
(* Bounds of the model. *)

\* Longest horizon explored with every draw left free.
FreeHorizon == 8

\* Longest horizon explored with the draws pinned to one end of their range.
LongHorizon == 112

\* Longest horizon with every draw free of a run that is made twice.
ReplayHorizon == 6

\* The most views of the core that are read.
MaxReads == 2

\* The largest --restart-limit given to main().
MaxRestartLimit == 1

\* The most times one worker of main() enters its target.
MaxInvocations == MaxRestartLimit + 3

\* The most times DataIngestion.start() takes effect.
MaxStarts == 2

\* The most records the ingestion thread appends.
MaxRecords == 3

\* The most requests the web server answers.
MaxRequests == 2

---------------------------------------------------------------------------
(* Program constants. *)

DefaultStock == 1000
raw_material_threshold == 200
PollDelay == 5
MaintenanceInterval == 50
SupplyInterval == 20
QualityInterval == 30
QualityPause == 5

Lines == {1, 2}

\* randint(5, 10)
MaterialUsed == 5..10
\* uniform(0.5, 2)
InterArrival == {1, 2}

Min(S) == CHOOSE x \in S : \A y \in S : x <= y
Max(S) == CHOOSE x \in S : \A y \in S : x >= y

\* The values a draw from S can take under the random stream of this run.
Sample(S) ==
    IF rng = "any" THEN S
    ELSE IF rng = "min" THEN {Min(S)} ELSE {Max(S)}

\* The outcomes of a test "random draw < threshold".
Below == IF rng = "any" THEN BOOLEAN ELSE {rng = "min"}

\* Draws taken from a source that random.seed does not govern.
DrawnUnseeded(ds) == draws' = draws

\* The step takes the draws ds, in order, from the seeded stream (a test
\* "draw < threshold" counts as 1 when it holds and 0 when it does not).
Drawn(ds) == draws' = draws \o ds

Bit(b) == IF b THEN 1 ELSE 0

---------------------------------------------------------------------------
(* Vehicle (models.py). *)

\* The yields of process_vehicle with painting and assembly exchanged.
StationOrderSwapped ==
    <<"welding", "painting", "assembly", "inspection", "testing", "packaging">>

\* The six yields of process_vehicle, in order.
StationOrder ==
    <<"welding", "assembly", "painting", "inspection", "testing", "packaging">>

\* uniform(min, max) of each station.
StationDuration(s) ==
    CASE s = "welding"    -> {1, 3}
      [] s = "assembly"   -> {2, 5}
      [] s = "painting"   -> {1, 3}
      [] s = "inspection" -> {1, 2}
      [] s = "testing"    -> {2, 4}
      [] s = "packaging"  -> {1}

\* Vehicle.__init__.  The colour, the engine type and the additional
\* features, drawn at construction and never read or written afterwards,
\* are left out.
NewVehicle(id, t) ==
    [id |-> id, creation_time |-> t, status |-> "created",
     components |-> {}, production_history |-> <<>>,
     quality_history |-> <<>>, maintenance_needed |-> FALSE]

update_status(v, s) ==
    [v EXCEPT !.status = s,
              !.production_history = Append(@, <<"status", s>>)]

\* add_production_step inserting at the head of the history.
add_production_step_at_head(v, step) ==
    [v EXCEPT !.production_history = <<step>> \o @]

add_production_step(v, step) ==
    [v EXCEPT !.production_history = Append(@, step)]

add_quality_check(v, check) ==
    [v EXCEPT !.quality_history = Append(@, check)]

add_component(v, c) ==
    add_production_step([v EXCEPT !.components = @ \cup {c}], <<"installed", c>>)

\* mark_for_maintenance recording the step without setting the flag.
mark_for_maintenance_unflagged(v) ==
    add_production_step(v, <<"marked", "maintenance">>)

mark_for_maintenance(v) ==
    add_production_step([v EXCEPT !.maintenance_needed = TRUE],
                        <<"marked", "maintenance">>)

\* What a station does first: status, "started" entry.
StationBegin(v, s) == add_production_step(update_status(v, s), <<"started", s>>)

\* What a station does after its timeout; failed is the outcome of the
\* performance draw of the testing station.
StationEnd(v, s, failed) ==
    CASE s = "assembly" ->
            add_production_step(add_component(add_component(v, "Chassis"), "Engine"),
                                <<"completed", s>>)
      [] s = "testing" ->
            IF failed
            THEN mark_for_maintenance(add_production_step(v, <<"testing", "failed">>))
            ELSE add_production_step(v, <<"testing", "passed">>)
      [] OTHER -> add_production_step(v, <<"completed", s>>)

---------------------------------------------------------------------------
(* The event heap (simpy.Environment, used through env.process,            *)
(* env.timeout and env.run). *)

P(kind, i) == <<kind, i>>

LineP(i) == P("line", i)
VehicleP(i) == P("process_vehicle", i)
StationP(i) == P("station", i)
MaintenanceP == P("maintenance", 0)
PerformP == P("perform_maintenance", 0)
SupplyP == P("supply_chain", 0)
ReplenishP == P("replenish", 0)
QualityP == P("quality_control", 0)
InspectP == P("inspect_vehicle", 0)
UntilP == P("until", 0)

\* URGENT is 0 and NORMAL is 1.
Priority(kind) == IF kind \in {"init", "until"} THEN 0 ELSE 1

Event(t, id, p, kind) ==
    [time |-> t, prio |-> Priority(kind), eid |-> id, proc |-> p, kind |-> kind]

\* Heap order with the insertion ids compared the wrong way round.
BeforeLastInFirst(a, b) ==
    \/ a.time < b.time
    \/ a.time = b.time /\ a.prio < b.prio
    \/ a.time = b.time /\ a.prio = b.prio /\ a.eid > b.eid

\* Heap order.
Before(a, b) ==
    \/ a.time < b.time
    \/ a.time = b.time /\ a.prio < b.prio
    \/ a.time = b.time /\ a.prio = b.prio /\ a.eid < b.eid

NextEvent == CHOOSE e \in queue : \A f \in queue \ {e} : Before(e, f)

\* env.step pops e, moves the clock to it and runs its callback, which
\* schedules the events of new.
Pop(e, new) ==
    /\ now' = e.time
    /\ queue' = (queue \ {e}) \cup new
    /\ eid' = eid + Cardinality(new)
    /\ processed' = Append(processed, e)

\* The next event resumes generator p in the ordinary way.
Resumes(p) ==
    /\ phase = "running"
    /\ queue # {}
    /\ NextEvent.proc = p
    /\ NextEvent.kind # "fail"

Logged(entry) == log' = Append(log, entry)

---------------------------------------------------------------------------
(* Construction (SimulationEngine.__init__, ProductionLine.__init__). *)

\* Stocks that the vehicles of the first 20 time units bring down to the
\* threshold, or just below it, when every vehicle uses the least amount.
NearThreshold == {raw_material_threshold + 29, raw_material_threshold + 30}

\* The stock a run starts with: the constructor's 1000, or a value the
\* caller assigns to the attribute before run_simulation (an empty stock,
\* and stocks that the first vehicle exhausts).
InitialStocks ==
    {0, 1, 5, DefaultStock} \cup (IF rng = "any" THEN {} ELSE NearThreshold)

\* The horizons explored: a rejected one, an empty one and a short one with
\* the draws free; the first maintenance check and a long one with the
\* draws pinned.
HorizonsUpTo(free) ==
    IF rng = "any" THEN {-1, 0, free}
    ELSE {MaintenanceInterval, LongHorizon}

Horizons == HorizonsUpTo(FreeHorizon)

Idle == [pc |-> "idle"]

\* The workers main() creates, in the order it starts and stops them.
Workers == {"simulation", "server"}

\* WorkerThread.__init__ of main.py.
Unstarted ==
    [pc |-> "none", stop_event |-> FALSE, restart_count |-> 0,
     invocations |-> 0]

\* The default of --restart-limit.
DefaultRestartLimit == 3

\* The position of main() at pc, about the worker w.
At(pc, w) == [pc |-> pc, of |-> w]

\* main() before it starts its workers, with one of the restart limits ls
\* and one of the sets fs of workers whose target raises every time.
MainInit(ls, fs) ==
    /\ restart_limit \in ls
    /\ failing \in fs
    /\ shutdown_flag = FALSE
    /\ monitor = At("start", "simulation")
    /\ worker = [w \in Workers |-> Unstarted]

\* The worker threads a DataIngestion can have: the two of every start().
Threads == {"ingestion", "flush"} \X (1 .. MaxStarts)

\* The thread that calls the methods of the DataIngestion.
Caller == <<"caller", 0>>

\* The holder of a lock nobody holds.
Free == <<"free", 0>>

\* DataIngestion.__init__: an empty buffer, not running, no workers.
IngestionInit ==
    /\ running = FALSE
    /\ data = <<>>
    /\ file = <<>>
    /\ lock = Free
    /\ thread = [t \in Threads \cup {Caller} |->
                   [pc |-> IF t = Caller THEN "idle" ELSE "none",
                    final |-> FALSE]]
    /\ stop_event = [t \in Threads |-> FALSE]
    /\ generation = 0
    /\ serial = 0

\* SimulationConfig(): the defaults of the four fields.
DefaultConfig ==
    [simulation_duration |-> 1000, production_rate |-> 1,
     maintenance_interval |-> MaintenanceInterval,
     supply_threshold |-> raw_material_threshold]

\* The web server when its module is loaded.
ServerInit ==
    /\ simulation_config = DefaultConfig
    /\ responses = <<>>

\* The state outside the engine when the engine is constructed.
OutsideInit ==
    /\ reads = <<>>
    /\ MainInit({DefaultRestartLimit}, {{}})
    /\ IngestionInit
    /\ ServerInit

\* The engine's own state as constructed, with one of the horizons hs.
Built(hs) ==
    /\ rng \in {"any", "min", "max"}
    /\ simulation_duration \in hs
    /\ stock0 \in InitialStocks
    /\ raw_material_stock = stock0
    /\ phase = "constructed"
    /\ error = "none"
    /\ fault = <<>>
    /\ now = 0
    /\ queue = {}
    /\ eid = 0
    /\ processed = <<>>
    /\ proc = [p \in {LineP(i) : i \in Lines} \cup {VehicleP(i) : i \in Lines}
                     \cup {StationP(i) : i \in Lines}
                     \cup {MaintenanceP, PerformP, SupplyP, ReplenishP,
                           QualityP, InspectP} |-> Idle]
    /\ vehicle_count = [i \in Lines |-> 0]
    /\ vehicles = [i \in Lines |-> <<>>]
    /\ maintenance_log = <<>>
    /\ log = <<>>
    /\ draws = <<>>
    /\ tape = <<>>
    /\ first = <<>>

\* The engine as constructed, with one of the horizons hs.
Constructed(hs) == Built(hs) /\ OutsideInit

Init == Constructed(Horizons)

---------------------------------------------------------------------------
(* run_simulation: registering the processes and env.run. *)

\* The processes in the order run_simulation registers them.
Registered == <<LineP(1), LineP(2), MaintenanceP, SupplyP, QualityP>>

\* The stop event placed one time unit early.
UntilDelayEarly(until) == until - now - 1

\* The stop event placed one time unit late.
UntilDelayLate(until) == until - now + 1

\* The delay env.run gives its stop event.
UntilDelay(until) == until - now

\* env.run accepting a horizon equal to the current time.
RejectedBeforeNow(until) == until < now

\* env.run raises ValueError for a horizon that is not after the current
\* time.
Rejected(until) == until <= now

\* The lines post_simulation_report logs: the total of the ledgers, one line
\* per maintenance record, the final stock.
post_simulation_report ==
    <<<<"report">>, <<"total vehicles", Len(vehicles[1]) + Len(vehicles[2])>>>>
    \o [n \in DOMAIN maintenance_log |-> <<"maintenance", maintenance_log[n]>>]
    \o <<<<"final stock", raw_material_stock>>>>

\* The except clause of run_simulation logs the error; the finally clause
\* writes the report.
ExceptAndReport(ex) == log' = log \o <<<<"error", ex>>>> \o post_simulation_report

RunSimulation ==
    /\ phase = "constructed"
    /\ LET started == {Event(now, k - 1, Registered[k], "init") :
                          k \in 1..Len(Registered)}
           n == Len(Registered)
       IN  /\ proc' = [p \in DOMAIN proc |->
                          IF \E k \in 1..n : Registered[k] = p
                          THEN [pc |-> "init"] ELSE proc[p]]
           /\ IF Rejected(simulation_duration)
              THEN \* env.run raises ValueError; the except clause logs it.
                   /\ queue' = started
                   /\ eid' = n
                   /\ error' = "ValueError"
                   /\ phase' = "reported"
                   /\ ExceptAndReport("ValueError")
              ELSE /\ queue' = started \cup
                          {Event(now + UntilDelay(simulation_duration), n,
                                 UntilP, "until")}
                   /\ eid' = n + 1
                   /\ error' = error
                   /\ phase' = "running"
                   /\ UNCHANGED log
    /\ UNCHANGED <<outside, simulation_duration, rng, tape, first, fault, now, processed,
                   raw_material_stock, stock0, vehicle_count, vehicles,
                   maintenance_log, draws>>

\* The stop event of env.run(until): the clock reaches the horizon and the
\* run ends; post_simulation_report follows.
StopAtHorizon ==
    /\ Resumes(UntilP)
    /\ Pop(NextEvent, {})
    /\ phase' = "reported"
    /\ log' = log \o post_simulation_report
    /\ UNCHANGED <<outside, simulation_duration, rng, tape, first, error, fault, proc,
                   raw_material_stock, stock0, vehicle_count, vehicles,
                   maintenance_log, draws>>

---------------------------------------------------------------------------
(* Production (run_production_line, produce_vehicle, process_vehicle and   *)
(* the six stations). *)

\* The loop ending when material lacks, instead of waiting.
HaltNoRetry(i, t) == {}

\* What a line schedules when material lacks: its own wake-up, a fixed
\* delay later.
Halt(i, t) == {Event(t + PollDelay, eid, LineP(i), "timeout")}

\* The stock test with its boundary one lower.
InsufficientBelowZero(stock) == stock < 0

\* The stock test of the production loop.
Insufficient(stock) == stock < 1

\* produce_vehicle taking the id before the counter is incremented.
produce_vehicle_stale_id(i, t) ==
    add_production_step(NewVehicle(vehicle_count[i], t),
                        <<"produced", "vehicle">>)

\* ProductionLine.produce_vehicle: the vehicle it appends.
produce_vehicle(i, t) ==
    add_production_step(NewVehicle(vehicle_count[i] + 1, t),
                        <<"produced", "vehicle">>)

\* Replaces vehicle k of line i.
SetVehicle(i, k, v) == vehicles' = [vehicles EXCEPT ![i][k] = v]

\* The production loop with a suspension between the stock test and the
\* decrement: the test, a sampled wait, then the vehicle and the decrement.
RunProductionLineSuspending(i) ==
    /\ Resumes(LineP(i))
    /\ LET e == NextEvent
           t == e.time
       IN  IF e.kind = "done"
           THEN \E d \in Sample(InterArrival) :
                    /\ Pop(e, {Event(t + d, eid, LineP(i), "timeout")})
                    /\ Drawn(<<d>>)
                    /\ proc' = [proc EXCEPT ![LineP(i)] = [pc |-> "interarrival"]]
                    /\ UNCHANGED <<raw_material_stock, vehicle_count, vehicles, log>>
           ELSE IF proc[LineP(i)].pc = "checked"
           THEN \E m \in Sample(MaterialUsed) :
                    /\ vehicle_count' = [vehicle_count EXCEPT ![i] = @ + 1]
                    /\ vehicles' = [vehicles EXCEPT ![i] = Append(@, produce_vehicle(i, t))]
                    /\ raw_material_stock' = raw_material_stock - m
                    /\ Drawn(<<m>>)
                    /\ Pop(e, {Event(t, eid, VehicleP(i), "init")})
                    /\ proc' = [proc EXCEPT
                                  ![LineP(i)] = [pc |-> "process"],
                                  ![VehicleP(i)] = [pc |-> "init",
                                                    veh |-> Len(vehicles[i]) + 1,
                                                    next |-> 1]]
                    /\ UNCHANGED log
           ELSE IF Insufficient(raw_material_stock)
           THEN /\ Pop(e, Halt(i, t))
                /\ UNCHANGED draws
                /\ proc' = [proc EXCEPT ![LineP(i)] = [pc |-> "poll"]]
                /\ UNCHANGED <<raw_material_stock, vehicle_count, vehicles, log>>
           ELSE \E d \in Sample(InterArrival) :
                    /\ Pop(e, {Event(t + d, eid, LineP(i), "timeout")})
                    /\ Drawn(<<d>>)
                    /\ proc' = [proc EXCEPT ![LineP(i)] = [pc |-> "checked"]]
                    /\ UNCHANGED <<raw_material_stock, vehicle_count, vehicles, log>>
    /\ UNCHANGED <<outside, simulation_duration, rng, tape, first, phase, error, fault, stock0,
                   maintenance_log>>

\* The production loop not waiting for process_vehicle: it starts the
\* station sequence and goes straight to the wait before the next vehicle.
RunProductionLineDetached(i) ==
    /\ Resumes(LineP(i))
    /\ LET e == NextEvent
           t == e.time
       IN  IF e.kind = "done"
           THEN /\ Pop(e, {})
                /\ UNCHANGED <<proc, raw_material_stock, vehicle_count, vehicles,
                               log, draws>>
           ELSE IF Insufficient(raw_material_stock)
           THEN /\ Pop(e, Halt(i, t))
                /\ proc' = [proc EXCEPT ![LineP(i)] = [pc |-> "poll"]]
                /\ UNCHANGED <<raw_material_stock, vehicle_count, vehicles, log, draws>>
           ELSE \E m \in Sample(MaterialUsed), d \in Sample(InterArrival) :
                    /\ vehicle_count' = [vehicle_count EXCEPT ![i] = @ + 1]
                    /\ vehicles' = [vehicles EXCEPT ![i] = Append(@, produce_vehicle(i, t))]
                    /\ raw_material_stock' = raw_material_stock - m
                    /\ Drawn(<<m, d>>)
                    /\ Pop(e, {Event(t, eid, VehicleP(i), "init"),
                               Event(t + d, eid + 1, LineP(i), "timeout")})
                    /\ proc' = [proc EXCEPT
                                  ![LineP(i)] = [pc |-> "interarrival"],
                                  ![VehicleP(i)] = [pc |-> "init",
                                                    veh |-> Len(vehicles[i]) + 1,
                                                    next |-> 1]]
                    /\ UNCHANGED log
    /\ UNCHANGED <<outside, simulation_duration, rng, tape, first, phase, error, fault, stock0,
                   maintenance_log>>

RunProductionLine(i) ==
    /\ Resumes(LineP(i))
    /\ LET e == NextEvent
           t == e.time
           hello == IF e.kind = "init" THEN <<<<"line started", i, t>>>> ELSE <<>>
       IN  IF e.kind = "done"
           THEN \* process_vehicle has finished: wait before the next vehicle.
                \E d \in Sample(InterArrival) :
                    /\ Pop(e, {Event(t + d, eid, LineP(i), "timeout")})
                    /\ Drawn(<<d>>)
                    /\ proc' = [proc EXCEPT ![LineP(i)] = [pc |-> "interarrival"]]
                    /\ UNCHANGED <<raw_material_stock, vehicle_count, vehicles, log>>
           ELSE IF Insufficient(raw_material_stock)
           THEN /\ Pop(e, Halt(i, t))
                /\ UNCHANGED draws
                /\ proc' = [proc EXCEPT ![LineP(i)] = [pc |-> "poll"]]
                /\ log' = log \o hello \o <<<<"halted", i, t>>>>
                /\ UNCHANGED <<raw_material_stock, vehicle_count, vehicles>>
           ELSE \E m \in Sample(MaterialUsed) :
                    /\ vehicle_count' = [vehicle_count EXCEPT ![i] = @ + 1]
                    /\ vehicles' = [vehicles EXCEPT ![i] = Append(@, produce_vehicle(i, t))]
                    /\ raw_material_stock' = raw_material_stock - m
                    /\ Drawn(<<m>>)
                    /\ Pop(e, {Event(t, eid, VehicleP(i), "init")})
                    /\ proc' = [proc EXCEPT
                                  ![LineP(i)] = [pc |-> "process"],
                                  ![VehicleP(i)] = [pc |-> "init",
                                                    veh |-> Len(vehicles[i]) + 1,
                                                    next |-> 1]]
                    /\ log' = log \o hello \o
                              <<<<"produced", i, vehicle_count[i] + 1, t>>,
                                <<"consumed", i, m, raw_material_stock - m>>>>
    /\ UNCHANGED <<outside, simulation_duration, rng, tape, first, phase, error, fault, stock0, maintenance_log>>

ProcessVehicle(i) ==
    /\ Resumes(VehicleP(i))
    /\ LET e == NextEvent
           t == e.time
           me == proc[VehicleP(i)]
       IN  IF me.next <= Len(StationOrder)
           THEN /\ Pop(e, {Event(t, eid, StationP(i), "init")})
                /\ proc' = [proc EXCEPT
                              ![VehicleP(i)] = [me EXCEPT !.pc = "wait", !.next = @ + 1],
                              ![StationP(i)] = [pc |-> "init", veh |-> me.veh,
                                                station |-> StationOrder[me.next]]]
                /\ UNCHANGED vehicles
           ELSE /\ SetVehicle(i, me.veh, update_status(vehicles[i][me.veh], "completed"))
                /\ Pop(e, {Event(t, eid, LineP(i), "done")})
                /\ proc' = [proc EXCEPT ![VehicleP(i)] = Idle]
    /\ UNCHANGED <<outside, simulation_duration, rng, tape, first, phase, error, fault, raw_material_stock,
                   stock0, vehicle_count, maintenance_log, log, draws>>

Station(i) ==
    /\ Resumes(StationP(i))
    /\ LET e == NextEvent
           t == e.time
           me == proc[StationP(i)]
           v == vehicles[i][me.veh]
       IN  IF e.kind = "init"
           THEN \E d \in Sample(StationDuration(me.station)) :
                    /\ SetVehicle(i, me.veh, StationBegin(v, me.station))
                    /\ Pop(e, {Event(t + d, eid, StationP(i), "timeout")})
                    /\ Drawn(<<d>>)
                    /\ proc' = [proc EXCEPT ![StationP(i)].pc = "busy"]
           ELSE \E failed \in (IF me.station = "testing" THEN Below ELSE {FALSE}) :
                    /\ SetVehicle(i, me.veh, StationEnd(v, me.station, failed))
                    /\ Pop(e, {Event(t, eid, VehicleP(i), "done")})
                    /\ Drawn(IF me.station = "testing" THEN <<Bit(failed)>> ELSE <<>>)
                    /\ proc' = [proc EXCEPT ![StationP(i)] = Idle]
    /\ UNCHANGED <<outside, simulation_duration, rng, tape, first, phase, error, fault, raw_material_stock,
                   stock0, vehicle_count, maintenance_log, log>>

---------------------------------------------------------------------------
(* Maintenance (maintenance_process, perform_maintenance). *)

\* uniform(5, 15)
MaintenanceDuration == {5, 15}

NoLine == Cardinality(Lines) + 1

\* The for loop of maintenance_process entered at line k: the lines j it can
\* stop at to perform maintenance (the coin tosses before j said no, the one
\* of j said yes), or NoLine when it can run to its end.
FirstRequired(k) ==
    {j \in k..NoLine : /\ j # NoLine => TRUE \in Below
                       /\ j > k => FALSE \in Below}

\* The outcomes of the coin tosses on the way from line k to line j.
TossesDrawn(k, j) ==
    [n \in 1..((IF j = NoLine THEN j - 1 ELSE j) - k + 1) |-> Bit(k + n - 1 = j)]

\* The coin tosses logged on the way from line k to line j.
Tosses(k, j, t) ==
    [n \in 1..((IF j = NoLine THEN j - 1 ELSE j) - k + 1) |->
        IF k + n - 1 = j THEN <<"maintenance required", j, t>>
                         ELSE <<"operating normally", k + n - 1, t>>]

MaintenanceProcess ==
    /\ Resumes(MaintenanceP)
    /\ LET e == NextEvent
           t == e.time
           me == proc[MaintenanceP]
           from == IF e.kind = "done" THEN me.idx + 1 ELSE 1
           check == IF e.kind = "timeout"
                    THEN <<<<"maintenance check", t>>>> ELSE <<>>
       IN  IF e.kind = "init"
           THEN /\ Pop(e, {Event(t + MaintenanceInterval, eid, MaintenanceP, "timeout")})
                /\ proc' = [proc EXCEPT ![MaintenanceP] = [pc |-> "interval", idx |-> 0]]
                /\ UNCHANGED <<log, draws>>
           ELSE \E j \in FirstRequired(from) :
                    /\ log' = log \o check \o Tosses(from, j, t)
                    /\ Drawn(TossesDrawn(from, j))
                    /\ IF j = NoLine
                       THEN /\ Pop(e, {Event(t + MaintenanceInterval, eid,
                                             MaintenanceP, "timeout")})
                            /\ proc' = [proc EXCEPT ![MaintenanceP] =
                                           [pc |-> "interval", idx |-> 0]]
                       ELSE /\ Pop(e, {Event(t, eid, PerformP, "init")})
                            /\ proc' = [proc EXCEPT
                                          ![MaintenanceP] = [pc |-> "perform", idx |-> j],
                                          ![PerformP] = [pc |-> "init", idx |-> j,
                                                         start |-> t, dur |-> 0]]
    /\ UNCHANGED <<outside, simulation_duration, rng, tape, first, phase, error, fault, raw_material_stock,
                   stock0, vehicle_count, vehicles, maintenance_log>>

\* Maintenance that halts the line: the pending wake-ups of the line's
\* processes are put off by the duration of the maintenance.
PerformMaintenanceHalting ==
    /\ Resumes(PerformP)
    /\ LET e == NextEvent
           t == e.time
           me == proc[PerformP]
           halted == {LineP(me.idx), VehicleP(me.idx), StationP(me.idx)}
       IN  IF e.kind = "init"
           THEN \E d \in Sample(MaintenanceDuration) :
                    /\ now' = t
                    /\ queue' = {IF f.proc \in halted
                                 THEN [f EXCEPT !.time = @ + d] ELSE f :
                                 f \in queue \ {e}}
                                \cup {Event(t + d, eid, PerformP, "timeout")}
                    /\ eid' = eid + 1
                    /\ processed' = Append(processed, e)
                    /\ Drawn(<<d>>)
                    /\ proc' = [proc EXCEPT ![PerformP] =
                                   [me EXCEPT !.pc = "busy", !.dur = d]]
                    /\ UNCHANGED maintenance_log
           ELSE /\ maintenance_log' = Append(maintenance_log,
                       [line |-> me.idx, time |-> t, duration |-> me.dur])
                /\ Pop(e, {Event(t, eid, MaintenanceP, "done")})
                /\ UNCHANGED draws
                /\ proc' = [proc EXCEPT ![PerformP] = Idle]
    /\ UNCHANGED <<outside, simulation_duration, rng, tape, first, phase, error, fault, raw_material_stock,
                   stock0, vehicle_count, vehicles, log>>

\* Maintenance that writes its record when it begins, stamped with the
\* time it begins at.
PerformMaintenanceRecordingAtStart ==
    /\ Resumes(PerformP)
    /\ LET e == NextEvent
           t == e.time
           me == proc[PerformP]
       IN  IF e.kind = "init"
           THEN \E d \in Sample(MaintenanceDuration) :
                    /\ Pop(e, {Event(t + d, eid, PerformP, "timeout")})
                    /\ Drawn(<<d>>)
                    /\ proc' = [proc EXCEPT ![PerformP] =
                                   [me EXCEPT !.pc = "busy", !.dur = d]]
                    /\ maintenance_log' = Append(maintenance_log,
                           [line |-> me.idx, time |-> t, duration |-> d])
           ELSE /\ UNCHANGED maintenance_log
                /\ Pop(e, {Event(t, eid, MaintenanceP, "done")})
                /\ UNCHANGED draws
                /\ proc' = [proc EXCEPT ![PerformP] = Idle]
    /\ UNCHANGED <<outside, simulation_duration, rng, tape, first, phase, error, fault, raw_material_stock,
                   stock0, vehicle_count, vehicles, log>>

PerformMaintenance ==
    /\ Resumes(PerformP)
    /\ LET e == NextEvent
           t == e.time
           me == proc[PerformP]
       IN  IF e.kind = "init"
           THEN \E d \in Sample(MaintenanceDuration) :
                    /\ Pop(e, {Event(t + d, eid, PerformP, "timeout")})
                    /\ Drawn(<<d>>)
                    /\ proc' = [proc EXCEPT ![PerformP] =
                                   [me EXCEPT !.pc = "busy", !.dur = d]]
                    /\ UNCHANGED maintenance_log
           ELSE /\ maintenance_log' = Append(maintenance_log,
                       [line |-> me.idx, time |-> t, duration |-> me.dur])
                /\ Pop(e, {Event(t, eid, MaintenanceP, "done")})
                /\ UNCHANGED draws
                /\ proc' = [proc EXCEPT ![PerformP] = Idle]
    /\ UNCHANGED <<outside, simulation_duration, rng, tape, first, phase, error, fault, raw_material_stock,
                   stock0, vehicle_count, vehicles, log>>

---------------------------------------------------------------------------
(* Supply chain (supply_chain_process, replenish_raw_materials). *)

\* A delivery that can take up to 30 time units.
SupplyDurationLong == {10, 30}

\* uniform(10, 20)
SupplyDuration == {10, 20}
\* randint(300, 500)
MaterialsAdded == {300, 400, 500}

\* The threshold test letting a stock equal to the threshold through.
AtOrBelowThreshold(stock) == stock <= raw_material_threshold

\* The test of the supply chain.
BelowThreshold(stock) == stock < raw_material_threshold

\* The supply chain on a fixed period: after a replenishment the next
\* check is due 20 time units after the check that ordered it.
SupplyChainProcessFixedPeriod ==
    /\ Resumes(SupplyP)
    /\ LET e == NextEvent
           t == e.time
           low == SelectSeq(log, LAMBDA x : x[1] = "stock low")
           next == IF e.kind = "done" THEN low[Len(low)][3] + SupplyInterval
                   ELSE t + SupplyInterval
       IN  IF e.kind = "timeout" /\ BelowThreshold(raw_material_stock)
           THEN /\ Pop(e, {Event(t, eid, ReplenishP, "init")})
                /\ proc' = [proc EXCEPT ![SupplyP] = [pc |-> "replenish"],
                                        ![ReplenishP] = [pc |-> "init"]]
                /\ Logged(<<"stock low", raw_material_stock, t>>)
           ELSE /\ Pop(e, {Event(next, eid, SupplyP, "timeout")})
                /\ proc' = [proc EXCEPT ![SupplyP] = [pc |-> "interval"]]
                /\ IF e.kind = "timeout"
                   THEN Logged(<<"stock sufficient", raw_material_stock, t>>)
                   ELSE UNCHANGED log
    /\ UNCHANGED <<outside, simulation_duration, rng, tape, first, phase, error, fault, raw_material_stock,
                   stock0, vehicle_count, vehicles, maintenance_log, draws>>

SupplyChainProcess ==
    /\ Resumes(SupplyP)
    /\ LET e == NextEvent
           t == e.time
       IN  IF e.kind = "timeout" /\ BelowThreshold(raw_material_stock)
           THEN /\ Pop(e, {Event(t, eid, ReplenishP, "init")})
                /\ proc' = [proc EXCEPT ![SupplyP] = [pc |-> "replenish"],
                                        ![ReplenishP] = [pc |-> "init"]]
                /\ Logged(<<"stock low", raw_material_stock, t>>)
           ELSE /\ Pop(e, {Event(t + SupplyInterval, eid, SupplyP, "timeout")})
                /\ proc' = [proc EXCEPT ![SupplyP] = [pc |-> "interval"]]
                /\ IF e.kind = "timeout"
                   THEN Logged(<<"stock sufficient", raw_material_stock, t>>)
                   ELSE UNCHANGED log
    /\ UNCHANGED <<outside, simulation_duration, rng, tape, first, phase, error, fault, raw_material_stock,
                   stock0, vehicle_count, vehicles, maintenance_log, draws>>

\* A delivery that fills the stock up to the amount ordered.
ReplenishRawMaterialsToLevel ==
    /\ Resumes(ReplenishP)
    /\ LET e == NextEvent
           t == e.time
       IN  IF e.kind = "init"
           THEN \E d \in Sample(SupplyDuration) :
                    /\ Pop(e, {Event(t + d, eid, ReplenishP, "timeout")})
                    /\ Drawn(<<d>>)
                    /\ proc' = [proc EXCEPT ![ReplenishP] = [pc |-> "busy"]]
                    /\ UNCHANGED <<raw_material_stock, log>>
           ELSE \E a \in Sample(MaterialsAdded) :
                    /\ raw_material_stock' = a
                    /\ Drawn(<<a>>)
                    /\ Pop(e, {Event(t, eid, SupplyP, "done")})
                    /\ proc' = [proc EXCEPT ![ReplenishP] = Idle]
                    /\ Logged(<<"replenished", a, a, t>>)
    /\ UNCHANGED <<outside, simulation_duration, rng, tape, first, phase, error, fault, stock0,
                   vehicle_count, vehicles, maintenance_log>>


ReplenishRawMaterials ==
    /\ Resumes(ReplenishP)
    /\ LET e == NextEvent
           t == e.time
       IN  IF e.kind = "init"
           THEN \E d \in Sample(SupplyDuration) :
                    /\ Pop(e, {Event(t + d, eid, ReplenishP, "timeout")})
                    /\ Drawn(<<d>>)
                    /\ proc' = [proc EXCEPT ![ReplenishP] = [pc |-> "busy"]]
                    /\ UNCHANGED <<raw_material_stock, log>>
           ELSE \E a \in Sample(MaterialsAdded) :
                    /\ raw_material_stock' = raw_material_stock + a
                    /\ Drawn(<<a>>)
                    /\ Pop(e, {Event(t, eid, SupplyP, "done")})
                    /\ proc' = [proc EXCEPT ![ReplenishP] = Idle]
                    /\ Logged(<<"replenished", a, raw_material_stock + a, t>>)
    /\ UNCHANGED <<outside, simulation_duration, rng, tape, first, phase, error, fault, stock0,
                   vehicle_count, vehicles, maintenance_log>>

---------------------------------------------------------------------------
(* Quality control (quality_control_process, inspect_vehicle). *)

\* uniform(1, 3)
InspectionDuration == {1, 3}
\* uniform(0, 1), in hundredths
QualityScores == {0, 70, 71, 100}
PassMark == 70

\* The for loop inspecting one vehicle per cycle: after the first
\* inspection the cycle is over.
FirstProducedOncePerCycle(k) ==
    IF k = 1 /\ \E j \in 1..(NoLine - 1) : vehicles[j] # <<>>
    THEN Min({j \in 1..(NoLine - 1) : vehicles[j] # <<>>})
    ELSE NoLine

\* The for loop of quality_control_process entered at line k: the first
\* line from k on that has produced a vehicle, or NoLine.
FirstProduced(k) ==
    IF \E j \in k..(NoLine - 1) : vehicles[j] # <<>>
    THEN Min({j \in k..(NoLine - 1) : vehicles[j] # <<>>})
    ELSE NoLine

QualityControlProcess ==
    /\ Resumes(QualityP)
    /\ LET e == NextEvent
           t == e.time
           me == proc[QualityP]
           from == IF e.kind = "done" THEN me.idx + 1 ELSE 1
           j == FirstProduced(from)
       IN  IF e.kind = "init" \/ (e.kind = "timeout" /\ me.pc = "pause")
           THEN /\ Pop(e, {Event(t + QualityInterval, eid, QualityP, "timeout")})
                /\ proc' = [proc EXCEPT ![QualityP] = [pc |-> "interval", idx |-> 0]]
                /\ UNCHANGED <<log, draws>>
           ELSE IF j = NoLine
           THEN /\ Pop(e, {Event(t + QualityPause, eid, QualityP, "timeout")})
                /\ proc' = [proc EXCEPT ![QualityP] = [pc |-> "pause", idx |-> 0]]
                /\ UNCHANGED <<log, draws>>
           ELSE \E k \in Sample(1..Len(vehicles[j])) :
                    /\ Pop(e, {Event(t, eid, InspectP, "init")})
                    /\ Drawn(<<k>>)
                    /\ proc' = [proc EXCEPT
                                  ![QualityP] = [pc |-> "inspect", idx |-> j],
                                  ![InspectP] = [pc |-> "init", idx |-> j, veh |-> k]]
                    /\ Logged(<<"inspecting", j, vehicles[j][k].id, t>>)
    /\ UNCHANGED <<outside, simulation_duration, rng, tape, first, phase, error, fault, raw_material_stock,
                   stock0, vehicle_count, vehicles, maintenance_log>>

InspectVehicle ==
    /\ Resumes(InspectP)
    /\ LET e == NextEvent
           t == e.time
           me == proc[InspectP]
       IN  IF e.kind = "init"
           THEN \E d \in Sample(InspectionDuration) :
                    /\ Pop(e, {Event(t + d, eid, InspectP, "timeout")})
                    /\ Drawn(<<d>>)
                    /\ proc' = [proc EXCEPT ![InspectP].pc = "busy"]
                    /\ UNCHANGED vehicles
           ELSE \E score \in Sample(QualityScores) :
                    /\ SetVehicle(me.idx, me.veh,
                           add_quality_check(vehicles[me.idx][me.veh],
                               [score |-> score,
                                result |-> IF score > PassMark
                                           THEN "passed" ELSE "failed"]))
                    /\ Pop(e, {Event(t, eid, QualityP, "done")})
                    /\ Drawn(<<score>>)
                    /\ proc' = [proc EXCEPT ![InspectP] = Idle]
    /\ UNCHANGED <<outside, simulation_duration, rng, tape, first, phase, error, fault, raw_material_stock,
                   stock0, vehicle_count, maintenance_log, log>>

---------------------------------------------------------------------------
(* The run. *)

Next ==
    \/ RunSimulation
    \/ StopAtHorizon
    \/ \E i \in Lines : RunProductionLine(i)
    \/ \E i \in Lines : ProcessVehicle(i)
    \/ \E i \in Lines : Station(i)
    \/ MaintenanceProcess
    \/ PerformMaintenance
    \/ SupplyChainProcess
    \/ ReplenishRawMaterials
    \/ QualityControlProcess
    \/ InspectVehicle

Spec == Init /\ [][Next]_vars

---------------------------------------------------------------------------
(* A generator that raises.  No statement of the engine raises by itself;  *)
(* Fault is an error that reaches a generator from outside (an unexpected  *)
(* state, a failing library call) at the moment it is resumed.  simpy      *)
(* fails the process, throws the error into the process waiting for it,    *)
(* and env.step re-raises the error of a process nobody waits for: env.run *)
(* ends and the except clause of run_simulation logs it. *)

CrashP == P("crash", 0)

\* The generator that waits for the completion of p.
Parent(p) ==
    CASE p[1] = "station"             -> VehicleP(p[2])
      [] p[1] = "process_vehicle"     -> LineP(p[2])
      [] p = PerformP                 -> MaintenanceP
      [] p = ReplenishP               -> SupplyP
      [] p = InspectP                 -> QualityP
      [] OTHER                        -> CrashP

Failed == [pc |-> "failed"]

Fault ==
    /\ phase = "running"
    /\ fault = <<>>
    /\ queue # {}
    /\ NextEvent.kind \notin {"until", "fail"}
    /\ LET e == NextEvent
       IN  /\ Pop(e, {Event(e.time, eid, Parent(e.proc), "fail")})
           /\ proc' = [proc EXCEPT ![e.proc] = Failed]
           /\ fault' = <<[proc |-> e.proc, time |-> e.time]>>
    /\ UNCHANGED <<outside, simulation_duration, rng, tape, first, phase, error, raw_material_stock,
                   stock0, vehicle_count, vehicles, maintenance_log, log, draws>>

ProcessFailed ==
    /\ phase = "running"
    /\ queue # {}
    /\ NextEvent.kind = "fail"
    /\ LET e == NextEvent
       IN  IF e.proc = CrashP
           THEN /\ Pop(e, {})
                /\ phase' = "reported"
                /\ error' = "fault"
                /\ proc' = proc
                /\ ExceptAndReport("fault")
           ELSE /\ Pop(e, {Event(e.time, eid, Parent(e.proc), "fail")})
                /\ proc' = [proc EXCEPT ![e.proc] = Failed]
                /\ UNCHANGED <<phase, error, log>>
    /\ UNCHANGED <<outside, simulation_duration, rng, tape, first, fault, raw_material_stock, stock0,
                   vehicle_count, vehicles, maintenance_log, draws>>

NextFault == Next \/ Fault \/ ProcessFailed

SpecFault == Init /\ [][NextFault]_vars

---------------------------------------------------------------------------
(* A second run with the same seed and the same horizon.  A new engine is  *)
(* constructed with the arguments of the first; random.seed(seed) puts the *)
(* random stream back to its start, so the second run draws the values    *)
(* the first one drew, in the same order. *)

\* What a run produces: the vehicles per line, the maintenance log and the
\* final stock.
Results ==
    [produced |-> [i \in Lines |-> Len(vehicles[i])],
     maintenance |-> maintenance_log,
     stock |-> raw_material_stock]

\* The stream of the second run is that of the first.
SameStream ==
    first # <<>> =>
        /\ Len(draws') <= Len(tape)
        /\ draws' = SubSeq(tape, 1, Len(draws'))

\* The first run is over; the second engine is constructed.
Restart ==
    /\ phase = "reported"
    /\ first = <<>>
    /\ first' = <<Results>>
    /\ tape' = draws
    /\ raw_material_stock' = stock0
    /\ phase' = "constructed"
    /\ error' = "none"
    /\ fault' = <<>>
    /\ now' = 0
    /\ queue' = {}
    /\ eid' = 0
    /\ processed' = <<>>
    /\ proc' = [p \in DOMAIN proc |-> Idle]
    /\ vehicle_count' = [i \in Lines |-> 0]
    /\ vehicles' = [i \in Lines |-> <<>>]
    /\ maintenance_log' = <<>>
    /\ log' = <<>>
    /\ draws' = <<>>
    /\ UNCHANGED <<outside, simulation_duration, rng, stock0>>

SeededStep == Next /\ SameStream

NextTwice == SeededStep \/ Restart

InitTwice == Constructed(HorizonsUpTo(ReplayHorizon))

SpecTwice == InitTwice /\ [][NextTwice]_vars

---------------------------------------------------------------------------
(* Reading the core between runs: the summaries of the vehicles, the       *)
(* maintenance log and the stock. *)

get_summary(v) ==
    [id |-> v.id, creation_time |-> v.creation_time, status |-> v.status,
     components |-> v.components, production_history |-> v.production_history,
     quality_history |-> v.quality_history,
     maintenance_needed |-> v.maintenance_needed]

\* The point-in-time view of the core.
View ==
    [vehicles |-> [i \in Lines |->
                     [k \in DOMAIN vehicles[i] |-> get_summary(vehicles[i][k])]],
     maintenance_log |-> maintenance_log,
     stock |-> raw_material_stock]

\* The position of the core at which a view is read.
Position == <<phase, Len(processed)>>

\* A read that hands the maintenance log out and empties it.
SnapshotDraining ==
    /\ phase \in {"constructed", "reported"}
    /\ Len(reads) < MaxReads
    /\ reads' = Append(reads, [at |-> Position, view |-> View])
    /\ maintenance_log' = <<>>
    /\ UNCHANGED <<simulation_duration, rng, phase, error, fault, now, queue, eid,
                   processed, proc, raw_material_stock, stock0, vehicle_count,
                   vehicles, log, draws, tape, first, supervisor, ingestion,
                   server>>

\* A reader takes the view of the core, between runs.
Snapshot ==
    /\ phase \in {"constructed", "reported"}
    /\ Len(reads) < MaxReads
    /\ reads' = Append(reads, [at |-> Position, view |-> View])
    /\ UNCHANGED <<engine, supervisor, ingestion, server>>

NextSnapshot == Next \/ Snapshot

InitSnapshot == Constructed(HorizonsUpTo(ReplayHorizon))

SpecSnapshot == InitSnapshot /\ [][NextSnapshot]_vars

---------------------------------------------------------------------------
(* main(): two WorkerThreads, the simulation's and the web server's, and   *)
(* the loop that monitors them.  A target is any callable: an invocation   *)
(* raises, returns, or goes on running.  Of the delays only their order    *)
(* matters: the pause of two seconds before a restart is shorter than the  *)
(* ten seconds stop() waits, so that only a running target outlasts a join. *)

\* The worker main() handles after w.
Following(w) == IF w = "simulation" THEN "server" ELSE "none"

\* threading.Thread.is_alive of the worker's thread.
Alive(w) == worker[w].pc \notin {"none", "done"}

\* The steps of main() and of the worker threads touch nothing else.
MainOnly == UNCHANGED <<engine, reads, ingestion, server>>

\* WorkerThread.start: clears the stop event and runs run_wrapper in a new
\* thread; restart_count is kept.
start(w) ==
    worker' = [worker EXCEPT ![w].stop_event = FALSE, ![w].pc = "while"]

\* main() starts its workers, one after the other.
Start ==
    /\ monitor.pc = "start"
    /\ start(monitor.of)
    /\ monitor' = IF Following(monitor.of) = "none" THEN At("while", "none")
                  ELSE At("start", Following(monitor.of))
    /\ UNCHANGED <<restart_limit, failing, shutdown_flag>>
    /\ MainOnly

\* while not shutdown_flag: the flag is read once per round.
WhileNotShutdown ==
    /\ monitor.pc = "while"
    /\ monitor' = IF shutdown_flag THEN At("stop", "simulation")
                  ELSE At("sleep", "none")
    /\ UNCHANGED <<restart_limit, failing, shutdown_flag, worker>>
    /\ MainOnly

\* time.sleep(5) of the monitor loop.
Sleep ==
    /\ monitor.pc = "sleep"
    /\ monitor' = At("check", "simulation")
    /\ UNCHANGED <<restart_limit, failing, shutdown_flag, worker>>
    /\ MainOnly

\* if not worker.is_alive(): worker.start(), for one worker and then the
\* other.
Check ==
    /\ monitor.pc = "check"
    /\ IF Alive(monitor.of) THEN UNCHANGED worker ELSE start(monitor.of)
    /\ monitor' = IF Following(monitor.of) = "none" THEN At("while", "none")
                  ELSE At("check", Following(monitor.of))
    /\ UNCHANGED <<restart_limit, failing, shutdown_flag>>
    /\ MainOnly

\* WorkerThread.stop, up to the join: sets the stop event.
Stop ==
    /\ monitor.pc = "stop"
    /\ worker' = [worker EXCEPT ![monitor.of].stop_event = TRUE]
    /\ monitor' = At("join", monitor.of)
    /\ UNCHANGED <<restart_limit, failing, shutdown_flag>>
    /\ MainOnly

\* thread.join(timeout=10) returns: the thread has ended, or its target has
\* been running for the ten seconds.  stop() returns with it; after the
\* last stop() main() exits.
Join ==
    /\ monitor.pc = "join"
    /\ \/ ~Alive(monitor.of)
       \/ worker[monitor.of].pc = "target"
    /\ monitor' = IF Following(monitor.of) = "none" THEN At("exit", "none")
                  ELSE At("stop", Following(monitor.of))
    /\ UNCHANGED <<restart_limit, failing, shutdown_flag, worker>>
    /\ MainOnly

\* SIGINT or SIGTERM is delivered.
signal_handler ==
    /\ monitor.pc # "exit"
    /\ ~shutdown_flag
    /\ shutdown_flag' = TRUE
    /\ UNCHANGED <<restart_limit, failing, monitor, worker>>
    /\ MainOnly

\* run_wrapper at its loop test: leaves when the stop event is set, else
\* enters the target.
RunWrapper(w) ==
    /\ worker[w].pc = "while"
    /\ IF worker[w].stop_event
       THEN worker' = [worker EXCEPT ![w].pc = "done"]
       ELSE /\ worker[w].invocations < MaxInvocations
            /\ worker' = [worker EXCEPT
                   ![w].pc = "target",
                   ![w].invocations = worker[w].invocations + 1]
    /\ UNCHANGED <<restart_limit, failing, shutdown_flag, monitor>>
    /\ MainOnly

\* The target raises: run_wrapper counts a restart and pauses, or gives up
\* at the limit and the thread ends.
TargetRaises(w) ==
    /\ worker[w].pc = "target"
    /\ worker' = IF worker[w].restart_count < restart_limit
                 THEN [worker EXCEPT
                          ![w].restart_count = worker[w].restart_count + 1,
                          ![w].pc = "sleep"]
                 ELSE [worker EXCEPT ![w].pc = "done"]
    /\ UNCHANGED <<restart_limit, failing, shutdown_flag, monitor>>
    /\ MainOnly

\* The target returns: run_wrapper breaks and the thread ends.
TargetReturns(w) ==
    /\ worker[w].pc = "target"
    /\ w \notin failing
    /\ worker' = [worker EXCEPT ![w].pc = "done"]
    /\ UNCHANGED <<restart_limit, failing, shutdown_flag, monitor>>
    /\ MainOnly

\* time.sleep(2) before the target is entered again.
Pause(w) ==
    /\ worker[w].pc = "sleep"
    /\ worker' = [worker EXCEPT ![w].pc = "while"]
    /\ UNCHANGED <<restart_limit, failing, shutdown_flag, monitor>>
    /\ MainOnly

NextMain ==
    \/ Start
    \/ WhileNotShutdown
    \/ Sleep
    \/ Check
    \/ Stop
    \/ Join
    \/ signal_handler
    \/ \E w \in Workers : RunWrapper(w)
    \/ \E w \in Workers : TargetRaises(w)
    \/ \E w \in Workers : TargetReturns(w)
    \/ \E w \in Workers : Pause(w)

\* main() with a restart limit up to MaxRestartLimit, beside an engine that
\* is constructed and left alone.
InitMain ==
    /\ rng = "min"
    /\ stock0 = DefaultStock
    /\ Built({LongHorizon})
    /\ reads = <<>>
    /\ MainInit(0 .. MaxRestartLimit, SUBSET Workers)
    /\ IngestionInit
    /\ ServerInit

SpecMain == InitMain /\ [][NextMain]_vars

\* main() and its threads when every thread that can take a step is
\* scheduled sooner or later.
SpecMainFair == SpecMain /\ WF_vars(NextMain)

---------------------------------------------------------------------------
(* The web server: the routes of the FastAPI application and what one      *)
(* request does.  FastAPI reads and parses the JSON body of a route that   *)
(* declares a body parameter, then runs the route's dependencies, then     *)
(* validates the parameters and the body's fields, then calls the endpoint. *)

API_KEY == "secret-token-123"

\* The values of the X-API-Key header tried: absent, wrong, right.
Keys == {"none", "wrong", API_KEY}

\* The routes declared with api_key: str = Depends(get_api_key).
Protected ==
    {<<"GET", "/data">>, <<"GET", "/vehicles">>, <<"GET", "/maintenance">>,
     <<"GET", "/reports">>, <<"GET", "/config">>, <<"POST", "/config">>}

\* The routes declared without it.
Open == {<<"GET", "/">>, <<"GET", "/auth/login">>}

\* The configurations a client posts: the defaults and a change of them.
Configs ==
    {DefaultConfig, [DefaultConfig EXCEPT !.simulation_duration = 500]}

\* The query strings tried on a route: login's username and password, the
\* records parameter of /data.
Queries(route) ==
    IF route = <<"GET", "/auth/login">> THEN {"missing", "empty", "given"}
    ELSE IF route = <<"GET", "/data">> THEN {"none", "valid", "invalid"}
    ELSE {"none"}

\* A request body of a kind, carrying the configuration c.
Body(kind, c) == [kind |-> kind, config |-> c]

\* The bodies tried on a route: none, text that is not JSON, JSON whose
\* fields fail validation, a configuration.
Bodies(route) ==
    IF route = <<"POST", "/config">>
    THEN {Body(k, DefaultConfig) : k \in {"none", "malformed", "invalid"}}
         \cup {Body("config", c) : c \in Configs}
    ELSE {Body("none", DefaultConfig)}

Requests ==
    UNION {[route : {route}, key : Keys, query : Queries(route),
            body : Bodies(route)] : route \in Protected \cup Open}

\* The statuses a body that is not JSON is answered with: 422 by a FastAPI
\* that raises RequestValidationError for it, 400 by an older one.
ParseErrors == {400, 422}

\* get_api_key with every key but the absent one let through.
get_api_key_any(key) == key # "none"

\* get_api_key: lets the request through when the header carries API_KEY.
get_api_key(key) == key = API_KEY

\* The configuration in the endpoint's answer to a valid request, if any.
Content(req) ==
    IF req.route = <<"GET", "/config">> THEN <<simulation_config>>
    ELSE IF req.route = <<"POST", "/config">> THEN <<req.body.config>>
    ELSE <<>>

\* The request is answered with the status and the content.
Answer(req, status, content) ==
    responses' = Append(responses,
                        [request |-> req, status |-> status,
                         content |-> content])

\* The server answers one request.
Serve(req) ==
    /\ Len(responses) < MaxRequests
    /\ IF req.body.kind = "malformed"
       THEN /\ \E s \in ParseErrors : Answer(req, s, <<>>)
            /\ UNCHANGED simulation_config
       ELSE IF req.route \in Protected /\ ~get_api_key(req.key)
       THEN /\ Answer(req, 401, <<>>)
            /\ UNCHANGED simulation_config
       ELSE IF req.query \in {"missing", "invalid"}
               \/ (req.route = <<"POST", "/config">>
                      /\ req.body.kind # "config")
       THEN /\ Answer(req, 422, <<>>)
            /\ UNCHANGED simulation_config
       ELSE IF req.query = "empty"
       THEN /\ Answer(req, 401, <<>>)
            /\ UNCHANGED simulation_config
       ELSE /\ Answer(req, 200, Content(req))
            /\ simulation_config' =
                   IF req.route = <<"POST", "/config">> THEN req.body.config
                   ELSE simulation_config
    /\ UNCHANGED <<engine, reads, supervisor, ingestion>>

NextServer == \E req \in Requests : Serve(req)

\* The server as loaded, beside an engine that is constructed and left alone.
InitServer ==
    /\ rng = "min"
    /\ stock0 = DefaultStock
    /\ Constructed({LongHorizon})

SpecServer == InitServer /\ [][NextServer]_vars

---------------------------------------------------------------------------
(* DataIngestion: the ingestion thread, the flush thread and a thread that *)
(* calls start(), stop() and flush_data().  A step is what a thread does   *)
(* between two points where another thread can run and make a difference:  *)
(* the loop tests, taking the lock, the write and the clearing under it.   *)
(* Records are numbered in the order they are appended.  The sleeps of the *)
(* ingestion thread are shorter than the five seconds stop() waits, the    *)
(* flush interval is longer.                                               *)

\* The steps of these threads touch nothing else.
IngestionOnly == UNCHANGED <<engine, reads, supervisor, server>>

\* The worker thread of a kind that start() made last.
Current(kind) == <<kind, generation>>

\* The thread t moves to pc.
Goto(t, pc) == thread' = [thread EXCEPT ![t].pc = pc]

\* with self.lock, entered without waiting for the holder.
AcquireUnlocked(t) == lock' = t

\* with self.lock: entered when nobody holds the lock.
Acquire(t) == lock = Free /\ lock' = t

\* run_wrapper at its loop test: leaves when the stop event is set, else
\* enters the target.  These targets absorb their exceptions and return
\* only when running is false, after which run_wrapper breaks.
Run(t) ==
    /\ thread[t].pc = "start"
    /\ Goto(t, IF stop_event[t] THEN "done" ELSE "while")
    /\ UNCHANGED <<running, data, file, lock, stop_event, generation, serial>>
    /\ IngestionOnly

\* _ingest_data at while self.running: makes a record, or returns.
IngestWhile(t) ==
    /\ t[1] = "ingestion"
    /\ thread[t].pc = "while"
    /\ running => serial < MaxRecords
    /\ Goto(t, IF running THEN "record" ELSE "done")
    /\ UNCHANGED <<running, data, file, lock, stop_event, generation, serial>>
    /\ IngestionOnly

\* _ingest_data takes the lock.
IngestLock(t) ==
    /\ thread[t].pc = "record"
    /\ Acquire(t)
    /\ Goto(t, "append")
    /\ UNCHANGED <<running, data, file, stop_event, generation, serial>>
    /\ IngestionOnly

\* self.data = self.data.append(record), and the lock is released.
IngestAppend(t) ==
    /\ thread[t].pc = "append"
    /\ serial' = serial + 1
    /\ data' = Append(data, serial + 1)
    /\ lock' = Free
    /\ Goto(t, "sleep")
    /\ UNCHANGED <<running, file, stop_event, generation>>
    /\ IngestionOnly

\* The sleep between two records.
IngestSleep(t) ==
    /\ t[1] = "ingestion"
    /\ thread[t].pc = "sleep"
    /\ Goto(t, "while")
    /\ UNCHANGED <<running, data, file, lock, stop_event, generation, serial>>
    /\ IngestionOnly

\* _flush_data_periodically at while self.running: sleeps, or leaves the
\* loop for the final flush.
FlushWhile(t) ==
    /\ t[1] = "flush"
    /\ thread[t].pc = "while"
    /\ thread' = [thread EXCEPT
                     ![t].pc = IF running THEN "sleep" ELSE "flush",
                     ![t].final = ~running]
    /\ UNCHANGED <<running, data, file, lock, stop_event, generation, serial>>
    /\ IngestionOnly

\* time.sleep(self.flush_interval) ends and flush_data is called.
FlushSleep(t) ==
    /\ t[1] = "flush"
    /\ thread[t].pc = "sleep"
    /\ Goto(t, "flush")
    /\ UNCHANGED <<running, data, file, lock, stop_event, generation, serial>>
    /\ IngestionOnly

\* flush_data takes the lock.
FlushLock(t) ==
    /\ thread[t].pc = "flush"
    /\ Acquire(t)
    /\ Goto(t, "write")
    /\ UNCHANGED <<running, data, file, stop_event, generation, serial>>
    /\ IngestionOnly

\* Where flush_data returns to: the caller is idle again, the flush thread
\* is back at its loop test, or has ended after the final flush.
Return(t) ==
    IF t = Caller THEN "idle" ELSE IF thread[t].final THEN "done" ELSE "while"

\* flush_data under the lock: a buffer that is not empty is written to the
\* end of the file; with an empty one there is nothing to do.
FlushWrite(t) ==
    /\ thread[t].pc = "write"
    /\ IF data # <<>>
       THEN /\ file' = file \o data
            /\ Goto(t, "clear")
            /\ UNCHANGED lock
       ELSE /\ lock' = Free
            /\ Goto(t, Return(t))
            /\ UNCHANGED file
    /\ UNCHANGED <<running, data, stop_event, generation, serial>>
    /\ IngestionOnly

\* flush_data under the lock: the buffer is replaced by an empty one, and
\* the lock is released.
FlushClear(t) ==
    /\ thread[t].pc = "clear"
    /\ data' = <<>>
    /\ lock' = Free
    /\ Goto(t, Return(t))
    /\ UNCHANGED <<running, file, stop_event, generation, serial>>
    /\ IngestionOnly

\* DataIngestion.start(), when not running: makes and starts two workers.
CallStart ==
    /\ thread[Caller].pc = "idle"
    /\ ~running
    /\ generation < MaxStarts
    /\ running' = TRUE
    /\ generation' = generation + 1
    /\ thread' = [thread EXCEPT ![<<"ingestion", generation + 1>>].pc = "start",
                                ![<<"flush", generation + 1>>].pc = "start"]
    /\ UNCHANGED <<data, file, lock, stop_event, serial>>
    /\ IngestionOnly

\* DataIngestion.stop(), when running: clears running, and stops the
\* ingestion worker up to its join.
CallStop ==
    /\ thread[Caller].pc = "idle"
    /\ running
    /\ running' = FALSE
    /\ stop_event' = [stop_event EXCEPT ![Current("ingestion")] = TRUE]
    /\ Goto(Caller, "join_ingestion")
    /\ UNCHANGED <<data, file, lock, generation, serial>>
    /\ IngestionOnly

\* The join of the ingestion thread returns, and stop() stops the flush
\* worker up to its join.
JoinIngestion ==
    /\ thread[Caller].pc = "join_ingestion"
    /\ thread[Current("ingestion")].pc = "done"
    /\ stop_event' = [stop_event EXCEPT ![Current("flush")] = TRUE]
    /\ Goto(Caller, "join_flush")
    /\ UNCHANGED <<running, data, file, lock, generation, serial>>
    /\ IngestionOnly

\* thread.join(timeout=5) of the flush thread returns: the thread has
\* ended, or it is still in its sleep.  stop() returns.
JoinFlush ==
    /\ thread[Caller].pc = "join_flush"
    /\ thread[Current("flush")].pc \in {"done", "sleep"}
    /\ Goto(Caller, "idle")
    /\ UNCHANGED <<running, data, file, lock, stop_event, generation, serial>>
    /\ IngestionOnly

\* flush_data() is called directly.
CallFlush ==
    /\ thread[Caller].pc = "idle"
    /\ Goto(Caller, "flush")
    /\ UNCHANGED <<running, data, file, lock, stop_event, generation, serial>>
    /\ IngestionOnly

NextIngestion ==
    \/ CallStart
    \/ CallStop
    \/ JoinIngestion
    \/ JoinFlush
    \/ CallFlush
    \/ \E t \in Threads : Run(t)
    \/ \E t \in Threads : IngestWhile(t)
    \/ \E t \in Threads : IngestLock(t)
    \/ \E t \in Threads : IngestAppend(t)
    \/ \E t \in Threads : IngestSleep(t)
    \/ \E t \in Threads : FlushWhile(t)
    \/ \E t \in Threads : FlushSleep(t)
    \/ \E t \in Threads \cup {Caller} : FlushLock(t)
    \/ \E t \in Threads \cup {Caller} : FlushWrite(t)
    \/ \E t \in Threads \cup {Caller} : FlushClear(t)

\* A DataIngestion as constructed, beside an engine that is constructed and
\* left alone.
InitIngestion ==
    /\ rng = "min"
    /\ stock0 = DefaultStock
    /\ Constructed({LongHorizon})

SpecIngestion == InitIngestion /\ [][NextIngestion]_vars

---------------------------------------------------------------------------
(* DataIngestion with writes that fail: to_csv raises, after it has put    *)
(* none or some of the buffer's records into the file.                     *)

\* What a failed write can leave in the file: the file and fewer than all
\* of the records of the buffer.
Partial == {file \o SubSeq(data, 1, k) : k \in 0 .. Len(data) - 1}

\* A failed write after which the buffer is cleared all the same.
WriteFailsClearing(t) ==
    /\ thread[t].pc = "write"
    /\ data # <<>>
    /\ Len(file) < MaxRecords
    /\ file' \in Partial
    /\ data' = <<>>
    /\ lock' = Free
    /\ Goto(t, Return(t))
    /\ UNCHANGED <<running, stop_event, generation, serial>>
    /\ IngestionOnly

\* flush_data under the lock: to_csv raises; the except clause inside the
\* lock logs the error, the clearing is skipped, the lock is released and
\* flush_data returns.  Writes fail only while the file is short.
WriteFails(t) ==
    /\ thread[t].pc = "write"
    /\ data # <<>>
    /\ Len(file) < MaxRecords
    /\ file' \in Partial
    /\ lock' = Free
    /\ Goto(t, Return(t))
    /\ UNCHANGED <<running, data, stop_event, generation, serial>>
    /\ IngestionOnly

NextFaulty ==
    \/ NextIngestion
    \/ \E t \in Threads \cup {Caller} : WriteFails(t)

SpecFaulty == InitIngestion /\ [][NextFaulty]_vars

---------------------------------------------------------------------------
(* Properties. *)

\* The vehicles of the ledgers, as (line, position).
Produced == UNION {{<<i, k>> : k \in DOMAIN vehicles[i]} : i \in Lines}

Veh(ik) == vehicles[ik[1]][ik[2]]

\* Whether the log holds an entry of this kind (for this line).
HasLogged(kind) == \E n \in DOMAIN log : log[n][1] = kind
HasLoggedFor(kind, i) == \E n \in DOMAIN log : log[n][1] = kind /\ log[n][2] = i

\* The positions of an entry in a production history.
Places(h, entry) == {n \in DOMAIN h : h[n] = entry}

C2_CheckAndDecrementInOneStep ==
    [][\A i \in Lines :
          /\ proc'[LineP(i)].pc \in {"idle", "init", "poll", "process",
                                     "interarrival", "failed"}
          /\ vehicle_count'[i] # vehicle_count[i] =>
                /\ raw_material_stock >= 1
                /\ \E m \in MaterialUsed :
                      raw_material_stock' = raw_material_stock - m]_vars

\* Both lines passed the test and decremented at the same instant.
C2_Witness ==
    /\ now = 0
    /\ vehicle_count[1] = 1 /\ vehicle_count[2] = 1
    /\ raw_material_stock < stock0 - Min(MaterialUsed)

\* A stock exactly enough for one vehicle: it passes the test of the loop
\* and the least amount a vehicle uses exhausts it.
EnoughForOne == 1..Min(MaterialUsed)

\* C3: scenario D: with a starting stock exactly enough for one vehicle and
\* no replenishment yet, at most one vehicle exists; once line 2 has run,
\* line 1 holds that vehicle and line 2 has none, has logged the lack of
\* material and is polling.
C3_ScenarioD ==
    (stock0 \in EnoughForOne /\ ~HasLogged("replenished")) =>
        /\ vehicle_count[1] + vehicle_count[2] <= 1
        /\ proc[LineP(2)].pc \notin {"idle", "init"} =>
              /\ vehicle_count[1] = 1 /\ Len(vehicles[1]) = 1
              /\ vehicle_count[2] = 0 /\ vehicles[2] = <<>>
              /\ HasLoggedFor("halted", 2)
              /\ proc[LineP(2)].pc = "poll"

\* Line 2 has polled a second time while line 1 works on the one vehicle.
C3_Witness ==
    /\ stock0 \in EnoughForOne
    /\ ~HasLogged("replenished")
    /\ vehicle_count[1] = 1 /\ vehicle_count[2] = 0
    /\ \E n \in DOMAIN log : log[n] = <<"halted", 2, PollDelay>>

\* The statuses a vehicle takes, in order.
StatusOrder ==
    <<"created", "welding", "assembly", "painting", "inspection", "testing",
      "packaging", "completed">>

\* The statuses a vehicle has taken: "created" at construction, then every
\* status update recorded in its production history.
StatusHistory(v) ==
    LET updates == SelectSeq(v.production_history, LAMBDA x : x[1] = "status")
    IN  <<"created">> \o [n \in DOMAIN updates |-> updates[n][2]]

\* C4: the statuses every vehicle has taken are a prefix of the eight
\* statuses in their order, and its current status is the last of them.
C4_StatusPrefix ==
    \A ik \in Produced :
        LET h == StatusHistory(Veh(ik))
        IN  /\ Len(h) <= Len(StatusOrder)
            /\ h = SubSeq(StatusOrder, 1, Len(h))
            /\ Veh(ik).status = h[Len(h)]

\* At the horizon one vehicle is completed and another is cut off while it
\* is still in a station.
C4_Witness ==
    /\ phase = "reported"
    /\ \E ik \in Produced : Veh(ik).status = "completed"
    /\ \E ik \in Produced : Veh(ik).status \in {"assembly", "painting", "testing"}

SixStations ==
    <<"welding", "assembly", "painting", "inspection", "testing", "packaging">>

\* C5: the production history of a completed vehicle holds, for each of
\* the six stations in order, the status update, then the "started" entry,
\* then the "completed" entry of the station, all before the status update
\* of the next station.
C5_StartedAndCompletedPerStation ==
    \A ik \in Produced :
        Veh(ik).status = "completed" =>
            LET h == Veh(ik).production_history
            IN  \A n \in DOMAIN SixStations :
                    \E a, b, c \in DOMAIN h :
                        /\ a < b /\ b < c
                        /\ h[a] = <<"status", SixStations[n]>>
                        /\ h[b] = <<"started", SixStations[n]>>
                        /\ h[c] = <<"completed", SixStations[n]>>
                        /\ \A z \in Places(h, <<"status", StatusOrder[n + 2]>>) : c < z

\* C6: on every line vehicle_count is the length of the ledger, the ids of
\* the ledger are 1, 2, ... in order, and a step only ever appends to the
\* ledger.
C6_LedgerAndCounter ==
    [][\A i \in Lines :
          /\ vehicle_count'[i] = Len(vehicles'[i])
          /\ Len(vehicles'[i]) >= Len(vehicles[i])
          /\ \A k \in DOMAIN vehicles'[i] : vehicles'[i][k].id = k
          /\ \A k \in DOMAIN vehicles[i] : vehicles'[i][k].id = vehicles[i][k].id]_vars

\* A line has produced several vehicles.
C6_Witness == \E i \in Lines : vehicle_count[i] >= 3 /\ Len(vehicles[i]) >= 3

\* The processes in the order run_simulation starts them.
StartOrder ==
    <<<<"line", 1>>, <<"line", 2>>, <<"maintenance", 0>>, <<"supply_chain", 0>>,
      <<"quality_control", 0>>>>

\* The first resumptions are those of the five processes, in start order.
StartsInOrder ==
    \A n \in DOMAIN StartOrder :
        n <= Len(processed) =>
            /\ processed[n].proc = StartOrder[n]
            /\ processed[n].time = 0

OfProcess(e) == e.proc # <<"until", 0>>

\* C8 as stated: when a run that was carried out has ended, every event
\* scheduled at or before the horizon has been executed.
C8_ExecutedUpToHorizon ==
    (phase = "reported" /\ error = "none") =>
        \A e \in queue : e.time > simulation_duration

\* C8 (amended): when the run has ended, every event scheduled before the
\* horizon has been executed, and no event of a process scheduled at the
\* horizon or later has been: the events left pending are exactly those
\* scheduled at or after the horizon.
C8_ExecutedBeforeHorizon ==
    phase = "reported" =>
        /\ \A e \in queue : e.time >= simulation_duration
        /\ \A n \in DOMAIN processed :
              OfProcess(processed[n]) => processed[n].time < simulation_duration

\* With a horizon of 50 the run has ended and the first maintenance check,
\* due at 50, is still pending.
C8_Witness ==
    /\ phase = "reported"
    /\ simulation_duration = 50
    /\ now = 50
    /\ \E e \in queue : e.proc = <<"maintenance", 0>> /\ e.time = 50
    /\ ~HasLogged("maintenance check")

\* C9: during and after a run that env.run carried out, the clock never
\* moves back and never passes the horizon; every resumption, every change
\* of the stock, every vehicle's creation and every maintenance record is
\* at a time within the horizon.
C9_WithinHorizon ==
    [][/\ now <= now'
       /\ (phase' = "running" \/ (phase' = "reported" /\ error' # "ValueError")) =>
              now' <= simulation_duration
       /\ processed' # processed => now' <= simulation_duration
       /\ raw_material_stock' # raw_material_stock => now' <= simulation_duration
       /\ \A i \in Lines : \A k \in DOMAIN vehicles'[i] :
              vehicles'[i][k].creation_time <= simulation_duration
       /\ \A n \in DOMAIN maintenance_log' :
              maintenance_log'[n].time <= simulation_duration]_vars

\* The run has stopped at the horizon with processes suspended beyond it,
\* after vehicles and maintenance records were made.
C9_Witness ==
    /\ phase = "reported"
    /\ error = "none"
    /\ now = simulation_duration
    /\ \E e \in queue : e.time > simulation_duration
    /\ vehicle_count[1] >= 1
    /\ maintenance_log # <<>>

\* C10: when a generator has raised, the run still goes on to the horizon
\* for the others: at its end the only events left pending before the
\* horizon are those of processes that failed.
C10_FaultIsolation ==
    (phase = "reported" /\ fault # <<>>) =>
        \A e \in queue :
            e.time < simulation_duration => proc[e.proc].pc = "failed"

\* The lines of the post-simulation report: what was logged from the
\* report's heading on.
ReportLines ==
    LET heads == {n \in DOMAIN log : log[n] = <<"report">>}
    IN  IF heads = {} THEN <<>>
        ELSE SubSeq(log, CHOOSE n \in heads : TRUE, Len(log))

\* C11: when a generator has raised, run_simulation has absorbed the error
\* (it returns with the error logged), the report has been produced, and
\* the report lists the error.
C11_FaultInReport ==
    (phase = "reported" /\ fault # <<>>) =>
        /\ error = "fault"
        /\ ReportLines # <<>>
        /\ \E n \in DOMAIN ReportLines : ReportLines[n][1] = "error"

\* The same without the error list: the error is absorbed and logged, and
\* the report (totals, maintenance records, final stock) is produced.
C11_FaultAbsorbed ==
    (phase = "reported" /\ fault # <<>>) =>
        /\ error = "fault"
        /\ \E n \in DOMAIN log : log[n] = <<"error", "fault">>
        /\ ReportLines # <<>>
        /\ ReportLines[Len(ReportLines)] = <<"final stock", raw_material_stock>>

\* C12: an engine with an invalid configuration (a negative horizon) has
\* failed at construction: run_simulation never gets to register a process
\* for it, so no process is started and no event is ever scheduled.
C12_InvalidConfigFailsAtConstruction ==
    simulation_duration < 0 =>
        /\ phase = "constructed"
        /\ queue = {}
        /\ eid = 0
        /\ \A p \in DOMAIN proc : proc[p] = Idle

\* C13: a second run made with the same seed (the same sequence of draws),
\* the same horizon and the same starting stock goes through to its end;
\* when it has ended it has taken the same draws as the first run and has
\* produced the same number of vehicles on every line, the same maintenance
\* log and the same final stock.
C13_SameSeedSameResults ==
    first # <<>> =>
        /\ phase # "reported" => ENABLED SeededStep
        /\ phase = "reported" => (draws = tape /\ Results = first[1])

\* The second run has ended after vehicles and maintenance records were
\* made and material was replenished.
C13_Witness ==
    /\ first # <<>>
    /\ phase = "reported"
    /\ Len(tape) >= 5
    /\ Results.produced[1] >= 1
    /\ Results.maintenance # <<>>
    /\ Results.stock # stock0

\* C14: scenario A: in a run with horizon 0 no line ever holds a vehicle,
\* the stock stays at its initial value and the maintenance log stays
\* empty; the report written at the end says so.
C14_ScenarioA ==
    simulation_duration = 0 =>
        /\ \A i \in Lines : vehicle_count[i] = 0 /\ vehicles[i] = <<>>
        /\ raw_material_stock = stock0
        /\ maintenance_log = <<>>
        /\ processed = <<>>
        /\ phase = "reported" =>
              /\ now = 0
              /\ SubSeq(ReportLines, 2, Len(ReportLines)) =
                    <<<<"total vehicles", 0>>, <<"final stock", stock0>>>>

\* The run with horizon 0 and the constructor's stock has ended with its
\* report.
C14_Witness ==
    /\ simulation_duration = 0
    /\ stock0 = DefaultStock
    /\ phase = "reported"
    /\ ReportLines # <<>>


\* The step resumes production line i.
LineResumed(i) ==
    /\ Len(processed') = Len(processed) + 1
    /\ processed'[Len(processed')].proc = <<"line", i>>

\* C15: scenario C: in a run that starts with an empty stock (threshold
\* 200) no line holds a vehicle as long as no replenishment has completed;
\* a line that is waiting for material when a replenishment has completed
\* creates a vehicle when its poll comes.
C15_ScenarioC ==
    [][stock0 = 0 =>
          /\ ~HasLogged("replenished")' =>
                \A i \in Lines : vehicle_count'[i] = 0 /\ vehicles'[i] = <<>>
          /\ \A i \in Lines :
                (/\ HasLogged("replenished")
                 /\ proc[LineP(i)].pc = "poll"
                 /\ LineResumed(i)) =>
                    /\ vehicle_count'[i] = vehicle_count[i] + 1
                    /\ Len(vehicles'[i]) = Len(vehicles[i]) + 1
                    /\ vehicles'[i][Len(vehicles'[i])].creation_time = now']_vars

\* After polling with an empty stock both lines have created a vehicle,
\* after the one replenishment so far.
C15_Witness ==
    /\ stock0 = 0
    /\ HasLoggedFor("halted", 1) /\ HasLoggedFor("halted", 2)
    /\ Cardinality({n \in DOMAIN log : log[n][1] = "replenished"}) = 1
    /\ vehicle_count[1] >= 1 /\ vehicle_count[2] >= 1

\* The pending wake-ups of production line i.
LineEvents(i) == {e \in queue : e.proc = <<"line", i>>}

\* The step creates a vehicle on line i.
Creates(i) == vehicle_count'[i] = vehicle_count[i] + 1

\* C16 as stated: a line that has created a vehicle waits only the
\* inter-arrival delay: after the step that creates the vehicle its next
\* attempt is scheduled 0.5..2 time units later, whatever the stations do.
C16_WaitsOnlyInterArrival ==
    [][\A i \in Lines :
          Creates(i) =>
              \E e \in LineEvents(i)' :
                  e.kind = "timeout" /\ e.time - now' \in InterArrival]_vars

\* C16 (amended): a line that has created a vehicle starts the station
\* sequence as a sub-process and waits for it: no wake-up of the line is
\* pending until the sequence has finished.  The line is next resumed by
\* the end of the sequence, when the vehicle is completed, and only then
\* waits the inter-arrival delay, without creating a vehicle in that step.
C16_WaitsForStationsThenInterArrival ==
    [][\A i \in Lines :
          /\ Creates(i) =>
                /\ proc'[VehicleP(i)].pc = "init"
                /\ proc'[VehicleP(i)].veh = Len(vehicles'[i])
                /\ proc'[LineP(i)].pc = "process"
                /\ LineEvents(i)' = {}
          /\ (proc[LineP(i)].pc = "process" /\ proc[VehicleP(i)].pc # "idle") =>
                LineEvents(i) = {}
          /\ (proc[LineP(i)].pc = "process" /\ LineResumed(i)) =>
                /\ vehicles[i][Len(vehicles[i])].status = "completed"
                /\ ~Creates(i)
                /\ \E e \in LineEvents(i)' :
                      e.kind = "timeout" /\ e.time - now' \in InterArrival]_vars

\* A line has waited for the stations of its first vehicle, then the
\* inter-arrival delay, and has created its second vehicle.
C16_Witness ==
    \E i \in Lines :
        /\ Len(vehicles[i]) = 2
        /\ vehicles[i][1].status = "completed"
        /\ vehicles[i][2].creation_time >= 8

\* The event that resumes a generator in this step.
Resumption == processed'[Len(processed')]

\* C17: a production line that is resumed to attempt a vehicle and finds
\* the stock below 1 creates no vehicle, leaves the stock and its ledger
\* as they are and schedules its own wake-up exactly 5 time units later;
\* a line that is polling always has that wake-up pending while the run
\* goes on.
C17_PollsWhenDepleted ==
    [][\A i \in Lines :
          /\ (LineResumed(i) /\ Resumption.kind # "done"
                             /\ raw_material_stock < 1) =>
                /\ vehicle_count' = vehicle_count
                /\ vehicles' = vehicles
                /\ raw_material_stock' = raw_material_stock
                /\ proc'[LineP(i)].pc = "poll"
                /\ \E e \in LineEvents(i)' :
                      /\ LineEvents(i)' = {e}
                      /\ e.kind = "timeout"
                      /\ e.time = now' + PollDelay
          /\ (phase' = "running" /\ proc'[LineP(i)].pc = "poll") =>
                LineEvents(i)' # {}]_vars

\* A line has found the stock empty three times in a row.
C17_Witness ==
    \E i \in Lines :
        /\ vehicle_count[i] = 0
        /\ \A t \in {0, PollDelay, 2 * PollDelay} :
              \E n \in DOMAIN log : log[n] = <<"halted", i, t>>


\* The maintenance checks logged so far, in order.
MaintenanceChecks == SelectSeq(log, LAMBDA x : x[1] = "maintenance check")

\* C18: the maintenance checks are exactly 50 time units apart: the k-th
\* check is at time 50 * k, whether or not maintenance was performed in the
\* cycles before it.
C18_FixedPeriod ==
    \A k \in DOMAIN MaintenanceChecks :
        MaintenanceChecks[k][2] = MaintenanceInterval * k

\* The processes of production line i: its loop, its station sequence and
\* the station in progress.
OfLine(i) == {<<"line", i>>, <<"process_vehicle", i>>, <<"station", i>>}

\* A maintenance of line i is in progress.
UnderMaintenance(i) ==
    /\ proc[<<"perform_maintenance", 0>>].pc = "busy"
    /\ proc[<<"perform_maintenance", 0>>].idx = i

\* C19: maintenance does not halt the line: a step of the maintenance
\* process or of a maintenance leaves the pending wake-ups, the positions,
\* the ledger and the counter of every line as they are; and while a
\* maintenance of line i is in progress, a process of line i whose wake-up
\* is the earliest pending event is resumed, at the time it was scheduled
\* for.
C19_MaintenanceLeavesLineRunning ==
    [][\A i \in Lines :
          /\ (/\ Len(processed') = Len(processed) + 1
              /\ Resumption.proc \in {<<"maintenance", 0>>,
                                       <<"perform_maintenance", 0>>}) =>
                /\ {e \in queue' : e.proc \in OfLine(i)} =
                   {e \in queue : e.proc \in OfLine(i)}
                /\ \A p \in OfLine(i) : proc'[p] = proc[p]
                /\ vehicles'[i] = vehicles[i]
                /\ vehicle_count'[i] = vehicle_count[i]
          /\ (/\ UnderMaintenance(i)
              /\ Len(processed') = Len(processed) + 1
              /\ NextEvent.proc \in OfLine(i)) =>
                /\ Resumption = NextEvent
                /\ now' = NextEvent.time
                /\ proc'[NextEvent.proc] # proc[NextEvent.proc]]_vars

\* A line created a vehicle while its maintenance was in progress, and the
\* maintenance has ended since.
C19_Witness ==
    \E i \in Lines : \E n \in DOMAIN maintenance_log :
        /\ maintenance_log[n].line = i
        /\ \E k \in DOMAIN vehicles[i] :
              /\ vehicles[i][k].creation_time < maintenance_log[n].time
              /\ vehicles[i][k].creation_time >
                    maintenance_log[n].time - maintenance_log[n].duration

\* s is t or t with entries added at its end.
Extends(t, s) == Len(s) >= Len(t) /\ SubSeq(s, 1, Len(t)) = t

\* C20: the shared logs are append-only: in every step the maintenance
\* log, the production history and the quality history of every vehicle
\* stay as they are or grow at the end; no entry is changed, moved or
\* removed, and no vehicle leaves a ledger.
C20_AppendOnly ==
    [][/\ Extends(maintenance_log, maintenance_log')
       /\ \A i \in Lines :
             /\ Len(vehicles'[i]) >= Len(vehicles[i])
             /\ \A k \in DOMAIN vehicles[i] :
                   /\ Extends(vehicles[i][k].production_history,
                              vehicles'[i][k].production_history)
                   /\ Extends(vehicles[i][k].quality_history,
                              vehicles'[i][k].quality_history)]_vars

\* Two maintenances are recorded, a vehicle has been inspected twice and a
\* vehicle is completed.
C20_Witness ==
    /\ Len(maintenance_log) >= 2
    /\ \E ik \in Produced : Len(Veh(ik).quality_history) >= 2
    /\ \E ik \in Produced : Veh(ik).status = "completed"

\* The entries of a kind in the engine's log.
LogOf(kind) == SelectSeq(log, LAMBDA x : x[1] = kind)

\* The step is a check of the supply chain.
SupplyCheck ==
    /\ Len(processed') = Len(processed) + 1
    /\ Resumption.proc = <<"supply_chain", 0>>
    /\ Resumption.kind = "timeout"

\* C21: a check of the supply chain that finds the stock below the
\* threshold starts a replenishment and nothing else; a check that finds
\* the stock at or above the threshold changes nothing but the time of the
\* next check, 20 time units later.  The stock only ever increases at the
\* end of a replenishment, by 300..500, 10..20 time units after the check
\* that found it below the threshold; every such check has had its
\* replenishment, or its replenishment is in progress.
C21_ReplenishIffBelowThreshold ==
    [][/\ (SupplyCheck /\ raw_material_stock < raw_material_threshold) =>
             /\ proc[<<"replenish", 0>>].pc = "idle"
             /\ proc'[<<"replenish", 0>>].pc = "init"
             /\ raw_material_stock' = raw_material_stock
             /\ vehicles' = vehicles /\ maintenance_log' = maintenance_log
       /\ (SupplyCheck /\ raw_material_stock >= raw_material_threshold) =>
             /\ proc'[<<"replenish", 0>>] = proc[<<"replenish", 0>>]
             /\ proc[<<"replenish", 0>>].pc = "idle"
             /\ raw_material_stock' = raw_material_stock
             /\ vehicles' = vehicles /\ maintenance_log' = maintenance_log
             /\ \E e \in queue' : /\ e.proc = <<"supply_chain", 0>>
                                   /\ e.time = now' + SupplyInterval
       /\ raw_material_stock' > raw_material_stock =>
             LET low == LogOf("stock low")
             IN  /\ Resumption.proc = <<"replenish", 0>>
                 /\ raw_material_stock' - raw_material_stock \in 300..500
                 /\ low # <<>>
                 /\ low[Len(low)][2] < raw_material_threshold
                 /\ now' - low[Len(low)][3] \in 10..20
       /\ LET pending == Len(LogOf("stock low")') - Len(LogOf("replenished")')
          IN  /\ pending \in {0, 1}
              /\ pending = 1 <=> proc'[<<"replenish", 0>>].pc # "idle"]_vars

\* A check found the stock one unit below the threshold, the stock was
\* replenished, and a later check found it sufficient.
C21_Witness ==
    /\ \E n \in DOMAIN log :
          log[n] = <<"stock low", raw_material_threshold - 1, SupplyInterval>>
    /\ LogOf("replenished") # <<>>
    /\ \E n \in DOMAIN log :
          log[n][1] = "stock sufficient" /\ log[n][3] > SupplyInterval


\* The quality records of all vehicles.
QualityRecords ==
    UNION {{Veh(ik).quality_history[n] : n \in DOMAIN Veh(ik).quality_history} :
           ik \in Produced}

\* C22: every quality record of a run whose verdict is "passed" holds the
\* three factor scores, in hundredths, and each meets its threshold:
\* assembly >= 0.75, paint >= 0.80 and performance >= 0.70.
C22_PassMeetsThreeThresholds ==
    \A r \in QualityRecords :
        r.result = "passed" =>
            /\ {"assembly_score", "paint_score", "performance_score"}
                  \subseteq DOMAIN r
            /\ r.assembly_score >= 75
            /\ r.paint_score >= 80
            /\ r.performance_score >= 70

\* The resumptions of the quality-control process by a timeout, in order:
\* the odd ones are the firings, the even ones end the pause after a cycle.
QualityTimeouts ==
    SelectSeq(processed, LAMBDA e : e.proc = <<"quality_control", 0>>
                                    /\ e.kind = "timeout")

Firings == (Len(QualityTimeouts) + 1) \div 2

\* The number of quality records of all vehicles.
RECURSIVE SumLen(_)
SumLen(S) ==
    IF S = {} THEN 0
    ELSE LET ik == CHOOSE x \in S : TRUE
         IN  Len(Veh(ik).quality_history) + SumLen(S \ {ik})

\* C23 as stated: each firing of quality control appends exactly one
\* inspection result, to one vehicle out of the pool of all lines: there
\* are never more results than firings.
C23_OneResultPerFiring == SumLen(Produced) <= Firings

\* The step resumes the quality-control process.
QualityResumed ==
    /\ Len(processed') = Len(processed) + 1
    /\ Resumption.proc = <<"quality_control", 0>>

\* The line at which the loop over the lines goes on in this step.
LoopFrom ==
    IF Resumption.kind = "done" THEN proc[<<"quality_control", 0>>].idx + 1 ELSE 1

\* C23 (amended): each firing of quality control goes through the lines in
\* order and, for each line that has produced a vehicle when its turn
\* comes, selects one vehicle of that line and appends exactly one
\* inspection result to it; a line is passed over only when it has no
\* vehicle, and when no line has one the firing appends nothing.  A result
\* is only ever appended by the inspection of the selected vehicle.
C23_OneResultPerLinePerFiring ==
    [][/\ (QualityResumed /\ proc'[<<"quality_control", 0>>].pc = "inspect") =>
             LET j == proc'[<<"quality_control", 0>>].idx
                 sel == proc'[<<"inspect_vehicle", 0>>]
             IN  /\ j \in LoopFrom..(NoLine - 1)
                 /\ \A i \in LoopFrom..(j - 1) : vehicles[i] = <<>>
                 /\ sel.pc = "init" /\ sel.idx = j
                 /\ sel.veh \in DOMAIN vehicles[j]
                 /\ vehicles' = vehicles
       /\ (QualityResumed /\ proc'[<<"quality_control", 0>>].pc = "pause") =>
             /\ \A i \in LoopFrom..(NoLine - 1) : vehicles[i] = <<>>
             /\ vehicles' = vehicles
       /\ (\E ik \in Produced :
              Veh(ik).quality_history # Veh(ik)'.quality_history) =>
             LET sel == proc[<<"inspect_vehicle", 0>>]
             IN  /\ Resumption.proc = <<"inspect_vehicle", 0>>
                 /\ sel.pc = "busy"
                 /\ \A ik \in Produced :
                       Len(Veh(ik)'.quality_history) =
                          Len(Veh(ik).quality_history) +
                          (IF ik = <<sel.idx, sel.veh>> THEN 1 ELSE 0)
                 /\ Resumption.time > Veh(<<sel.idx, sel.veh>>).creation_time]_vars

\* In a run that started without material the first firing found no
\* vehicle, and a later firing has inspected a vehicle of each line.
C23_Witness ==
    /\ stock0 = 0
    /\ Firings >= 2
    /\ proc[<<"quality_control", 0>>].pc = "pause"
    /\ \A i \in Lines : \E k \in DOMAIN vehicles[i] :
          vehicles[i][k].quality_history # <<>>

\* The number of entries of a production history that report the outcome
\* of the testing station.
TestingFailed(v) == Cardinality(Places(v.production_history, <<"testing", "failed">>))
TestingPassed(v) == Cardinality(Places(v.production_history, <<"testing", "passed">>))

\* C24: for every vehicle, maintenance_needed is true exactly when its
\* production history holds a "Testing failed" entry; a vehicle that has
\* left the testing station has exactly one of "Testing failed" and
\* "Testing passed"; a vehicle that has not reached it has neither, and a
\* vehicle in it has at most one; a vehicle without outcome is not flagged.
C24_FlagIffTestingFailed ==
    \A ik \in Produced :
        LET v == Veh(ik)
            outcomes == TestingFailed(v) + TestingPassed(v)
        IN  /\ v.maintenance_needed <=> TestingFailed(v) >= 1
            /\ v.status \in {"packaging", "completed"} => outcomes = 1
            /\ v.status = "testing" => outcomes <= 1
            /\ v.status \in {"created", "welding", "assembly", "painting",
                              "inspection"} => outcomes = 0
            /\ outcomes = 0 => ~v.maintenance_needed
            /\ v.maintenance_needed =>
                  Places(v.production_history, <<"marked", "maintenance">>) # {}

\* One vehicle has failed its test and is flagged, another has passed.
C24_Witness ==
    /\ \E ik \in Produced : Veh(ik).maintenance_needed /\ TestingFailed(Veh(ik)) = 1
    /\ \E ik \in Produced : ~Veh(ik).maintenance_needed /\ TestingPassed(Veh(ik)) = 1

---------------------------------------------------------------------------
(* The workers of main(). *)

\* stop() of the worker w has returned to main().
Returned(w) ==
    \/ monitor.pc = "exit"
    \/ /\ monitor.pc \in {"stop", "join"}
       /\ Following(w) = monitor.of

\* C26: a worker whose target raises on every invocation has its target
\* entered at most restart_limit + 1 times over the whole life of main(),
\* the restarts of run_wrapper and those of the monitor loop taken together.
C26_RestartedAtMostLimitTimes ==
    \A w \in failing : worker[w].invocations <= restart_limit + 1

\* C27: when stop() of a worker has returned, the worker's thread is no
\* longer running, and from then on its target is not entered again (main()
\* calls no start() after a stop()).
C27_StopWaitsForTheThread ==
    /\ [](\A w \in Workers : Returned(w) => ~Alive(w))
    /\ [][\A w \in Workers :
            Returned(w) => worker'[w].invocations = worker[w].invocations]_vars


---------------------------------------------------------------------------
(* The web server. *)

\* The step answers the request req.
Answers(req) ==
    /\ responses' # responses
    /\ responses'[Len(responses')].request = req

\* The status the step answers with.
Status == responses'[Len(responses')].status

\* A request to a protected route without the valid key.
Unauthenticated == {req \in Requests : req.route \in Protected /\ req.key # API_KEY}

\* C28 as stated: every request to a protected route without the valid key
\* is answered 401 and changes nothing of the server's state.
C28_UnauthenticatedIs401 ==
    [][\A req \in Unauthenticated :
         Answers(req) => /\ Status = 401
                         /\ UNCHANGED <<simulation_config, ingestion>>]_vars

\* C28: every request to a protected route without the valid key is
\* refused and changes nothing of the server's state, simulation_config
\* included; the status is 401, except for a POST /config whose body is not
\* JSON, which is refused with 422 (400 by an older FastAPI) before the key
\* is looked at.
C28_UnauthenticatedIsRefused ==
    [][\A req \in Unauthenticated :
         Answers(req) =>
             /\ UNCHANGED <<simulation_config, ingestion>>
             /\ IF req.body.kind = "malformed" THEN Status \in ParseErrors
                ELSE Status = 401]_vars

\* An unauthenticated POST /config with a valid new configuration has been
\* answered 401 and the configuration is still the default; so has one
\* with a wrong key.
C28_Witness ==
    /\ simulation_config = DefaultConfig
    /\ \E i \in DOMAIN responses :
          /\ responses[i].request.route = <<"POST", "/config">>
          /\ responses[i].request.key = "wrong"
          /\ responses[i].request.body.kind = "config"
          /\ responses[i].request.body.config # DefaultConfig
          /\ responses[i].status = 401
    /\ \E i \in DOMAIN responses :
          /\ responses[i].request.route = <<"POST", "/config">>
          /\ responses[i].request.key = "none"
          /\ responses[i].request.body.kind = "malformed"
          /\ responses[i].status = 422


---------------------------------------------------------------------------
(* The ingestion of records. *)

\* The records ingested so far, in the order they were appended.
Ingested == [n \in 1 .. serial |-> n]

\* The records of the buffer that are not in the file: the buffer, but for
\* a flush that has written it and is about to clear it.
Unwritten ==
    IF \E t \in Threads \cup {Caller} : thread[t].pc = "clear" THEN <<>>
    ELSE data

\* C29: under any interleaving of the ingestion thread, the flush thread
\* and direct calls of flush_data, the file followed by what is still to be
\* written is the sequence of records ingested: nothing is lost between the
\* write and the clearing of the buffer, nothing is written twice, and when
\* a flush has cleared the buffer every record ingested is in the file once.
C29_WrittenExactlyOnce == file \o Unwritten = Ingested

\* A flush has written the first record and released the lock, and a
\* second record has been appended since.
C29_Witness ==
    /\ file = <<1>>
    /\ data = <<2>>
    /\ lock = Free

\* stop() has been called and has returned, and the threads of the workers
\* have ended.
Terminated ==
    /\ generation > 0
    /\ ~running
    /\ thread[Caller].pc = "idle"
    /\ \A t \in Threads : thread[t].pc \in {"none", "done"}

\* C30: once stop() has been called and the ingestion thread and the flush
\* thread have ended, the buffer is empty: every record ingested has been
\* flushed to the file.
C30_FinalFlushEmptiesTheBuffer == Terminated => data = <<>>


---------------------------------------------------------------------------
(* Writes that fail. *)

\* The elements of a sequence.
Range(s) == {s[i] : i \in DOMAIN s}

\* The step is a flush of t whose write fails: t leaves the write with a
\* buffer that is not empty, and not for the clearing.
FailedWrite(t) ==
    /\ thread[t].pc = "write"
    /\ data # <<>>
    /\ thread'[t].pc # "write"
    /\ thread'[t].pc # "clear"

\* C31: when the write of a flush fails, flush_data returns to where it was
\* called from with the lock released and the buffer as it was; so every
\* record ingested is, at any time, in the file or still in the buffer for
\* the next flush.
C31_FailedWriteKeepsBuffer ==
    /\ [][\A t \in Threads \cup {Caller} :
            FailedWrite(t) => /\ data' = data
                              /\ lock' = Free
                              /\ thread'[t].pc = Return(t)]_vars
    /\ [](Range(Ingested) \subseteq Range(file) \cup Range(data))

\* A write of two records has failed after the first was put into the
\* file: flush_data has returned, the lock is free and both records are
\* still in the buffer.
C31_Witness ==
    /\ file = <<1>>
    /\ data = <<1, 2>>
    /\ lock = Free
    /\ \A t \in Threads \cup {Caller} : thread[t].pc \notin {"write", "clear"}


---------------------------------------------------------------------------
(* The threads of a DataIngestion. *)

\* The threads of a kind that are inside the loop of their target.
Looping(kind) ==
    {t \in Threads :
        /\ t[1] = kind
        /\ thread[t].pc \in {"while", "record", "append", "sleep", "flush",
                             "write", "clear"}
        /\ ~thread[t].final}

\* C32: at any time at most one ingestion thread and at most one flush
\* thread are inside their loops, whatever start() and stop() calls were
\* made, a start() after a stop() whose join timed out on a sleeping flush
\* thread included.
C32_OneThreadOfAKind ==
    /\ Cardinality(Looping("ingestion")) <= 1
    /\ Cardinality(Looping("flush")) <= 1


---------------------------------------------------------------------------
(* Shutdown of main(). *)

\* The step is a start() of the worker w made by the monitor loop.
Restarts(w) ==
    /\ monitor.pc = "check"
    /\ monitor.of = w
    /\ ~Alive(w)
    /\ worker'[w].pc = "while"

\* C33: once the shutdown flag is set, the monitor loop starts no worker
\* again (and then goes on to stop() both workers, see C33_StopsBoth).
C33_NoStartAfterShutdown ==
    [][shutdown_flag => \A w \in Workers : ~Restarts(w)]_vars

\* The other half of C33: once the shutdown flag is set, main() comes to
\* call stop() on both workers and to exit.
C33_StopsBoth == shutdown_flag ~> monitor.pc = "exit"


---------------------------------------------------------------------------
(* The bounds of the stock. *)

\* C34: the stock is never below -9: a step lowers it only from a stock of
\* at least 1 and by at most 10, so a line resumed after the stock has
\* fallen below 1 does not lower it further.
C34_StockAtLeastMinusNine ==
    /\ [](raw_material_stock >= -9)
    /\ [][raw_material_stock' < raw_material_stock =>
            /\ raw_material_stock >= 1
            /\ raw_material_stock - raw_material_stock' <= 10]_vars

\* The first line has taken 10 units from a stock of 1, and the second
\* line, resumed at the same instant, has found the stock short and polls.
C34_Witness ==
    /\ raw_material_stock = -9
    /\ now = 0
    /\ Len(vehicles[1]) = 1
    /\ Len(vehicles[2]) = 0
    /\ HasLoggedFor("halted", 2)


---------------------------------------------------------------------------
(* One vehicle at a time on a line. *)

\* C35: on every line all vehicles but the last one created are completed,
\* so that at most one vehicle of a line is not completed and vehicle
\* k + 1 is only created after vehicle k has been completed.
C35_OneVehicleInProgress ==
    /\ [](\A i \in Lines : \A k \in DOMAIN vehicles[i] :
             k < Len(vehicles[i]) => vehicles[i][k].status = "completed")
    /\ [][\A i \in Lines :
            (Creates(i) /\ vehicles[i] # <<>>) =>
                vehicles[i][Len(vehicles[i])].status = "completed"]_vars

\* A line has completed its first vehicle and is working on its second.
C35_Witness ==
    \E i \in Lines :
        /\ Len(vehicles[i]) = 2
        /\ vehicles[i][1].status = "completed"
        /\ vehicles[i][2].status \notin {"created", "completed"}


---------------------------------------------------------------------------
(* Maintenance, one at a time. *)

\* The tosses logged so far, in order: what was found for which line when.
TossesLogged ==
    SelectSeq(log, LAMBDA x : x[1] \in {"maintenance required",
                                        "operating normally"})

\* The maintenances begun and not yet ended.
InProgress == IF proc[PerformP] = Idle THEN 0 ELSE 1

\* C36: maintenance is serialised.  Every positive toss has its record or
\* is the one maintenance in progress; after a positive toss for line 1
\* the toss for line 2 is made at the time line 1's maintenance ended; a
\* record is appended when its maintenance ends, stamped start + duration;
\* and the log is ordered by time.
C36_MaintenanceSerialised ==
    /\ [](Len(LogOf("maintenance required")) = Len(maintenance_log) + InProgress)
    /\ [](\A n \in DOMAIN TossesLogged :
             (TossesLogged[n][1] = "maintenance required"
                /\ TossesLogged[n][2] = 1 /\ n < Len(TossesLogged)) =>
                 /\ TossesLogged[n + 1][2] = 2
                 /\ \E r \in DOMAIN maintenance_log :
                       /\ maintenance_log[r].line = 1
                       /\ maintenance_log[r].time = TossesLogged[n + 1][3]
                       /\ maintenance_log[r].time =
                              TossesLogged[n][3] + maintenance_log[r].duration)
    /\ [](\A a, b \in DOMAIN maintenance_log :
             a < b => maintenance_log[a].time <= maintenance_log[b].time)
    /\ [][maintenance_log' # maintenance_log =>
            /\ Len(maintenance_log') = Len(maintenance_log) + 1
            /\ SubSeq(maintenance_log', 1, Len(maintenance_log)) = maintenance_log
            /\ LET r == maintenance_log'[Len(maintenance_log')]
               IN  /\ r.line = proc[PerformP].idx
                   /\ r.time = proc[PerformP].start + r.duration
                   /\ r.time = now'
                   /\ proc'[PerformP] = Idle]_vars

\* Both lines were found to need maintenance at the first check, one after
\* the other, and both records are in the log.
C36_Witness ==
    /\ Len(maintenance_log) >= 2
    /\ maintenance_log[1].line = 1
    /\ maintenance_log[2].line = 2
    /\ maintenance_log[2].time = maintenance_log[1].time + maintenance_log[2].duration
    /\ maintenance_log[2].duration > 0


---------------------------------------------------------------------------
(* Replenishment orders, one at a time. *)

\* What the supply chain has logged, in order: its checks and the
\* replenishments completed.
SupplyLog ==
    SelectSeq(log, LAMBDA x : x[1] \in {"stock low", "stock sufficient",
                                        "replenished"})

\* The time of an entry of the supply chain's log.
SupplyTime(x) == IF x[1] = "replenished" THEN x[4] ELSE x[3]

\* A replenishment order is in flight.
InFlight == proc[ReplenishP] # Idle

---------------------------------------------------------------------------
(* How long the stock stays low. *)

\* The entries of the engine's log that record a change of the stock.
Changes == {n \in DOMAIN log : log[n][1] \in {"consumed", "replenished"}}

\* The stock a change left, and the time of the change (a consumption is
\* logged right after the vehicle it was made for).
Left(n) == IF log[n][1] = "consumed" THEN log[n][4] ELSE log[n][3]
When(n) == IF log[n][1] = "consumed" THEN log[n - 1][4] ELSE log[n][4]

\* The changes since the stock was last at or above the threshold.
SinceHigh ==
    {n \in Changes :
        \A h \in Changes : Left(h) >= raw_material_threshold => h < n}

\* The time since which the stock has been below the threshold, when it is:
\* the start of the run, or the time of the consumption that took it below.
LowSince ==
    IF SinceHigh = Changes /\ stock0 < raw_material_threshold THEN 0
    ELSE When(Min(SinceHigh))

\* The stock is below the threshold and has been since a time t with
\* t + 40 before the horizon.
LowInTime ==
    /\ raw_material_stock < raw_material_threshold
    /\ LowSince + 2 * SupplyInterval < simulation_duration

\* C38: whenever the stock is below the threshold at a time t with t + 40
\* before the horizon, a replenishment completes after that and no later
\* than t + 40: the run never gets past t + 40, nor to its end, with the
\* stock below the threshold since t, and the replenishment that ends such
\* a time completes after t and by t + 40.  When a replenishment completes,
\* the stock it leaves is at or above the threshold.
C38_ReplenishedWithinForty ==
    /\ [](LowInTime => /\ now <= LowSince + 2 * SupplyInterval
                       /\ phase # "reported")
    /\ [][raw_material_stock' > raw_material_stock =>
            /\ raw_material_stock' >= raw_material_threshold
            /\ LowInTime => /\ now' > LowSince
                            /\ now' <= LowSince + 2 * SupplyInterval]_vars

\* The stock fell below the threshold during the run, where a vehicle was
\* created more than 40 before the horizon, and has been replenished since.
C38_Witness ==
    /\ stock0 >= raw_material_threshold
    /\ raw_material_stock >= raw_material_threshold
    /\ \E n \in Changes, r \in Changes :
          /\ log[n][1] = "consumed"
          /\ Left(n) < raw_material_threshold
          /\ When(n) + 2 * SupplyInterval < simulation_duration
          /\ log[r][1] = "replenished"
          /\ n < r


---------------------------------------------------------------------------
(* Conservation of the stock. *)

RECURSIVE Total(_)
Total(s) == IF s = <<>> THEN 0 ELSE Head(s) + Total(Tail(s))

\* The amounts consumed and the amounts delivered, as logged.
Consumed == [n \in DOMAIN LogOf("consumed") |-> LogOf("consumed")[n][3]]
Added == [n \in DOMAIN LogOf("replenished") |-> LogOf("replenished")[n][2]]

\* C39: the stock is the initial stock, less one amount in 5..10 for each
\* vehicle ever created on any line, plus the amounts added by the
\* replenishments that have completed; the stock changes only in a step
\* that creates a vehicle or completes a replenishment, so no maintenance,
\* quality-control or station step changes it.
C39_StockConserved ==
    /\ [](/\ raw_material_stock = stock0 - Total(Consumed) + Total(Added)
          /\ Len(Consumed) = Cardinality(Produced)
          /\ \A n \in DOMAIN Consumed : Consumed[n] \in MaterialUsed)
    /\ [][raw_material_stock' # raw_material_stock =>
            \/ /\ Cardinality(Produced') = Cardinality(Produced) + 1
               /\ raw_material_stock - raw_material_stock' \in MaterialUsed
               /\ LogOf("replenished")' = LogOf("replenished")
            \/ /\ Len(LogOf("replenished")') = Len(LogOf("replenished")) + 1
               /\ Produced' = Produced]_vars

\* Vehicles have been created before and after a replenishment completed,
\* and stations, maintenance and quality control have acted.
C39_Witness ==
    /\ \E n \in DOMAIN log, r \in DOMAIN log :
          /\ log[r][1] = "replenished"
          /\ log[n][1] = "consumed"
          /\ r < n
    /\ LogOf("maintenance check") # <<>>
    /\ \E ik \in Produced : /\ Veh(ik).quality_history # <<>>
                            /\ Veh(ik).production_history # <<>>

=============================================================================
